---- MODULE Spec2Model ----
(***************************************************************************)
(* Model of the reconciliation scripts: the Persian text normaliser, the   *)
(* numeric conversion, the value comparator, the column mapper and the row *)
(* aligner of compare_excel.py, and the WBS merge of                       *)
(* generate_master_verified.py.                                            *)
(*                                                                         *)
(* Text is a sequence of characters; a character is a short ASCII name of  *)
(* the code point ("ArYeh" is U+064A, "FaYeh" U+06CC, "Fa1" U+06F1, "Ar1"  *)
(* U+0661, "ArSep" U+066C, "ZWNJ" U+200C, "SP" a space, "TAB" a tab).      *)
(* A number is an integer count of 1/Unit, so that decimals are exact.     *)
(***************************************************************************)
EXTENDS Integers, Sequences, FiniteSets, TLC

VARIABLES
    pc,                 \* position of the run: "start" or "done"
    text,               \* PersianNormalizer.normalize: the argument
    normalized,         \* normalize(text)
    renormalized,       \* normalize(normalize(text))
    value,              \* the argument of the numeric conversions
    conv,               \* what each numeric conversion returns for value
    val1,               \* ValueComparator.compare: the contractor's value
    val2,               \* ValueComparator.compare: the employer's value
    NUMERIC_TOLERANCE,  \* Config.NUMERIC_TOLERANCE (--tolerance sets it)
    cmp,                \* what compare(val1, val2) returns
    employer_columns,   \* ColumnMapper: the employer's column labels
    contractor_columns, \* ColumnMapper: the contractor's column labels
    COLUMN_MATCH_THRESHOLD,  \* Config.COLUMN_MATCH_THRESHOLD
    mapping,            \* ColumnMapper.mapping, a dict in insertion order
    df_employer,        \* ExcelComparator: the employer's sheet as loaded
    df_contractor,      \* ExcelComparator: the contractor's sheet as loaded
    aligned_employer,   \* the employer's rows after alignment (source row numbers)
    aligned_contractor, \* the contractor's rows after alignment (source row numbers)
    id_column,          \* ExcelComparator.id_column, <<>> for None
    disputes,           \* DisputeReport.disputes
    contractor_data,    \* compare_and_merge: the contractor's SheetData
    employer_data,      \* compare_and_merge: the employer's SheetData
    results,            \* what compare_and_merge returns
    contractor_file,    \* the contractor's workbook as it lies on disk
    employer_file,      \* the employer's workbook as it lies on disk
    todo,               \* process_files: the sheets the loop has yet to visit
    all_results,        \* process_files: all_results
    warnings_log,       \* process_files: warnings_log
    extracted,          \* process_files: the SheetData extracted, sheet by sheet
    exit_code,          \* what main returns, -1 while it runs
    report,             \* what generate_excel_report and the summary write
    sheet,              \* header location: the rows of the sheet
    max_scan_rows,      \* header location: the rows to scan
    header_location,    \* header location: the rows returned
    group_spans,        \* find_group_column_span of every group label
    contractor_ws,      \* column_mapping: the contractor's worksheet
    employer_ws,        \* column_mapping: the employer's worksheet
    sheet_rows,         \* column_mapping: what extract_sheet_data returns
    amount_cols,        \* the amount columns found in the header rows of sheet
    available_sheets,   \* SheetFinder: the sheet names of the workbook
    target_sheet,       \* SheetFinder.find_sheet: the sheet asked for
    found_sheet         \* what find_sheet returns

normVars == <<text, normalized, renormalized>>
numVars == <<value, conv>>
cmpVars == <<val1, val2, NUMERIC_TOLERANCE, cmp>>
mapVars == <<employer_columns, contractor_columns, COLUMN_MATCH_THRESHOLD, mapping>>
runVars == <<df_employer, df_contractor, aligned_employer, aligned_contractor,
             id_column, disputes>>
mergeVars == <<contractor_data, employer_data, results>>
procVars == <<contractor_file, employer_file, todo, all_results, warnings_log,
              extracted, exit_code, report>>
locVars == <<sheet, max_scan_rows, header_location, group_spans>>
extVars == <<contractor_ws, employer_ws, sheet_rows, amount_cols, available_sheets,
             target_sheet, found_sheet>>
vars == <<pc, normVars, numVars, cmpVars, mapVars, runVars, mergeVars, procVars, locVars,
          extVars>>

(***************************************************************************)
(* Bounds of the model.                                                    *)
(***************************************************************************)
MaxTextLen == 3
MaxCmpLen == 2
MaxCols == 2
MaxRows == 2
MaxItems == 2

(***************************************************************************)
(* Cell values: pandas hands a cell over as NaN/None, a number or a text.  *)
(***************************************************************************)
Pow10(k) == IF k = 0 THEN 1
            ELSE IF k = 1 THEN 10
            ELSE IF k = 2 THEN 100
            ELSE IF k = 3 THEN 1000
            ELSE IF k = 4 THEN 10000
            ELSE 100000

\* numbers are counted in thousandths
Unit == Pow10(3)

NaN == [tag |-> "nan", n |-> 0, s |-> <<>>]

Num(k) == [tag |-> "num", n |-> k, s |-> <<>>]

Txt(q) == [tag |-> "text", n |-> 0, s |-> q]

isna(v) == v.tag = "nan"

SeqsUpTo(S, k) == UNION {[1..m -> S] : m \in 0..k}

(***************************************************************************)
(* str(): the text Python prints for a value.  A float prints its integer  *)
(* part, a point and its decimals without trailing zeros (at least one).   *)
(***************************************************************************)
DigitChar(d) == CASE d = 0 -> "0" [] d = 1 -> "1" [] d = 2 -> "2" [] d = 3 -> "3"
                  [] d = 4 -> "4" [] d = 5 -> "5" [] d = 6 -> "6" [] d = 7 -> "7"
                  [] d = 8 -> "8" [] d = 9 -> "9"

RECURSIVE NatDigits(_)
NatDigits(k) == IF k < 10 THEN <<DigitChar(k)>>
                ELSE Append(NatDigits(k \div 10), DigitChar(k % 10))

RECURSIVE FracDigits(_, _)
FracDigits(f, scale) ==
    IF scale = 1 \/ f = 0 THEN <<>>
    ELSE LET sub == scale \div 10
         IN  <<DigitChar(f \div sub)>> \o FracDigits(f % sub, sub)

StrFloat(k) ==
    LET a    == IF k < 0 THEN -k ELSE k
        frac == FracDigits(a % Unit, Unit)
    IN  (IF k < 0 THEN <<"-">> ELSE <<>>) \o NatDigits(a \div Unit) \o <<".">>
        \o (IF frac = <<>> THEN <<"0">> ELSE frac)

Str(v) == IF v.tag = "text" THEN v.s
          ELSE IF v.tag = "num" THEN StrFloat(v.n)
          ELSE <<"n", "a", "n">>

(***************************************************************************)
(* PersianNormalizer                                                       *)
(***************************************************************************)
CHAR_MAP(c) ==
    CASE c = "ArYeh" -> "FaYeh"
      [] c = "ArKaf" -> "FaKaf"
      [] c \in {"Ar0", "Fa0"} -> "0"
      [] c \in {"Ar1", "Fa1"} -> "1"
      [] c \in {"Ar2", "Fa2"} -> "2"
      [] c \in {"Ar3", "Fa3"} -> "3"
      [] OTHER -> c

ZERO_WIDTH_CHARS == {"ZWNJ", "ZWSP", "ZWJ", "BOM", "LRM", "RLM"}

\* the characters the regular expression \s and str.strip() take for space
Whitespace == {"SP", "TAB", "NL"}

MapChars(s) == [i \in 1..Len(s) |-> CHAR_MAP(s[i])]

RemoveZeroWidth(s) == SelectSeq(s, LAMBDA c : c \notin ZERO_WIDTH_CHARS)

\* re.sub(r'\s+', ' ', text): every maximal run of whitespace becomes one space
RECURSIVE CollapseSpaces(_)
CollapseSpaces(s) ==
    IF s = <<>> THEN <<>>
    ELSE IF Head(s) \in Whitespace
         THEN IF Len(s) > 1 /\ s[2] \in Whitespace
              THEN CollapseSpaces(Tail(s))
              ELSE <<"SP">> \o CollapseSpaces(Tail(s))
         ELSE <<Head(s)>> \o CollapseSpaces(Tail(s))

RECURSIVE LStrip(_)
LStrip(s) == IF s # <<>> /\ Head(s) \in Whitespace THEN LStrip(Tail(s)) ELSE s

RECURSIVE RStrip(_)
RStrip(s) == IF s # <<>> /\ s[Len(s)] \in Whitespace
             THEN RStrip(SubSeq(s, 1, Len(s) - 1)) ELSE s

\* str.strip()
Strip(s) == RStrip(LStrip(s))

\* a slip the tests below must notice: spaces collapsed before the zero-width
\* characters are taken out
normalize_ws_first(v) ==
    IF isna(v) THEN <<>>
    ELSE RemoveZeroWidth(Strip(CollapseSpaces(MapChars(Str(v)))))

normalize(v) ==
    IF isna(v) THEN <<>>
    ELSE Strip(CollapseSpaces(RemoveZeroWidth(MapChars(Str(v)))))

UpperCase == <<"A", "B", "C", "D", "E", "F", "G", "H", "I", "J", "K", "L", "M",
               "N", "O", "P", "Q", "R", "S", "T", "U", "V", "W", "X", "Y", "Z">>

LowerCase == <<"a", "b", "c", "d", "e", "f", "g", "h", "i", "j", "k", "l", "m",
               "n", "o", "p", "q", "r", "s", "t", "u", "v", "w", "x", "y", "z">>

UpperSet == {UpperCase[i] : i \in 1..Len(UpperCase)}

LowerOf == [c \in UpperSet |-> LowerCase[CHOOSE i \in 1..Len(UpperCase) : UpperCase[i] = c]]

LowerChar(c) == IF c \in UpperSet THEN LowerOf[c] ELSE c

Lower(s) == [i \in 1..Len(s) |-> LowerChar(s[i])]

normalize_for_comparison(v) ==
    Lower(SelectSeq(normalize(v), LAMBDA c : c # "SP"))

(***************************************************************************)
(* Numeric conversion.  float() is Python's: it strips the surrounding     *)
(* whitespace, takes an optional sign, digits with at most one point, and  *)
(* reads the decimal digits of every script.  None stands for the          *)
(* ValueError it raises (and for Python's None).                           *)
(***************************************************************************)
None == [some |-> FALSE, v |-> 0]

Float(x) == [some |-> TRUE, v |-> x]

DigitValue(c) ==
    CASE c \in {"0", "Ar0", "Fa0"} -> 0
      [] c \in {"1", "Ar1", "Fa1"} -> 1
      [] c \in {"2", "Ar2", "Fa2"} -> 2
      [] c \in {"3", "Ar3", "Fa3"} -> 3
      [] c \in {"4"} -> 4 [] c \in {"5"} -> 5 [] c \in {"6"} -> 6
      [] c \in {"7"} -> 7 [] c \in {"8"} -> 8 [] c \in {"9"} -> 9
      [] OTHER -> -1

IsDigit(c) == DigitValue(c) >= 0

AllDigits(s) == \A i \in 1..Len(s) : IsDigit(s[i])

RECURSIVE NatValue(_)
NatValue(s) == IF s = <<>> THEN 0
               ELSE 10 * NatValue(SubSeq(s, 1, Len(s) - 1)) + DigitValue(s[Len(s)])

\* the decimals d1 d2 d3 ... as a count of 1/Unit (decimals past the third are
\* below the resolution of the model and are cut)
FracValue(s) ==
    LET d == IF Len(s) > 3 THEN SubSeq(s, 1, 3) ELSE s
    IN  NatValue(d) * Pow10(3 - Len(d))

Replace(s, c) == SelectSeq(s, LAMBDA x : x # c)

IndexOf(s, c) == IF \E i \in 1..Len(s) : s[i] = c
                 THEN CHOOSE i \in 1..Len(s) : s[i] = c /\ \A j \in 1..(i - 1) : s[j] # c
                 ELSE 0

\* digits [. [digits]] | . digits
UnsignedFloat(b) ==
    LET p == IndexOf(b, ".")
        whole == IF p = 0 THEN b ELSE SubSeq(b, 1, p - 1)
        frac  == IF p = 0 THEN <<>> ELSE SubSeq(b, p + 1, Len(b))
    IN  IF AllDigits(whole) /\ AllDigits(frac) /\ Len(whole) + Len(frac) > 0
        THEN Float(NatValue(whole) * Unit + FracValue(frac))
        ELSE None

PyFloat(s) ==
    LET t    == Strip(s)
        neg  == t # <<>> /\ Head(t) = "-"
        body == IF t # <<>> /\ Head(t) \in {"-", "+"} THEN Tail(t) ELSE t
        u    == UnsignedFloat(body)
    IN  IF u.some /\ neg THEN Float(-u.v) ELSE u

\* ValueComparator.is_numeric
is_numeric(v) ==
    IF isna(v) THEN FALSE
    ELSE IF v.tag = "num" THEN TRUE
    ELSE PyFloat(Replace(Replace(Str(v), ","), "ArSep")).some

\* a slip the tests below must notice: the failure is handed on as None
to_numeric_none(v) ==
    IF isna(v) THEN None
    ELSE IF v.tag = "num" THEN Float(v.n)
    ELSE PyFloat(Replace(Replace(Replace(Str(v), ","), "ArSep"), "SP"))

\* a slip the tests below must notice: only the digits 0-9 are read
to_numeric_ascii(v) ==
    IF isna(v) THEN Float(0)
    ELSE IF v.tag = "num" THEN Float(v.n)
    ELSE LET f == PyFloat(Replace(Replace(Replace(Str(v), ","), "ArSep"), "SP"))
         IN  IF f.some /\ \A i \in 1..Len(Str(v)) :
                             IsDigit(Str(v)[i]) => Str(v)[i] = DigitChar(DigitValue(Str(v)[i]))
             THEN f ELSE Float(0)

\* ValueComparator.to_numeric
to_numeric(v) ==
    IF isna(v) THEN Float(0)
    ELSE IF v.tag = "num" THEN Float(v.n)
    ELSE LET f == PyFloat(Replace(Replace(Replace(Str(v), ","), "ArSep"), "SP"))
         IN  IF f.some THEN f ELSE Float(0)

\* generate_disputes.clean_numeric
clean_numeric(v) ==
    IF isna(v) THEN Float(0)
    ELSE IF v.tag = "num" THEN Float(v.n)
    ELSE LET f == PyFloat(v.s) IN IF f.some THEN f ELSE Float(0)

\* generate_master_verified.persian_to_english
persian_to_english(s) ==
    [i \in 1..Len(s) |-> IF IsDigit(s[i]) THEN DigitChar(DigitValue(s[i])) ELSE s[i]]

\* the longest run of digits that starts s
RECURSIVE DigitRun(_)
DigitRun(s) == IF s # <<>> /\ IsDigit(Head(s)) THEN <<Head(s)>> \o DigitRun(Tail(s))
               ELSE <<>>

\* what [-+]?\d*\.?\d+ matches when the match starts at the head of s
MatchNumberAt(s) ==
    LET signed == s # <<>> /\ Head(s) \in {"-", "+"}
        body   == IF signed THEN Tail(s) ELSE s
        d1     == DigitRun(body)
        rest   == SubSeq(body, Len(d1) + 1, Len(body))
        d2     == IF rest # <<>> /\ Head(rest) = "." THEN DigitRun(Tail(rest)) ELSE <<>>
        m      == IF d2 # <<>> THEN d1 \o <<".">> \o d2 ELSE d1
    IN  IF m = <<>> THEN <<>>
        ELSE IF signed THEN <<Head(s)>> \o m ELSE m

\* re.search: the match at the leftmost position that has one
RECURSIVE SearchNumber(_)
SearchNumber(s) ==
    IF s = <<>> THEN <<>>
    ELSE IF MatchNumberAt(s) # <<>> THEN MatchNumberAt(s)
    ELSE SearchNumber(Tail(s))

\* str.isdigit()
isdigit(s) == s # <<>> /\ AllDigits(s)

\* generate_master_verified.clean_numeric_value
clean_numeric_value(v) ==
    IF isna(v) THEN Float(0)
    ELSE IF v.tag = "num" THEN Float(v.n)
    ELSE LET t0 == Strip(Str(v))
             t  == Replace(Replace(persian_to_english(t0), ","), "SP")
             p  == IndexOf(t, "/")
             m  == SearchNumber(t)
         IN  IF t0 = <<>> \/ t0 = <<"-">> THEN Float(0)
             ELSE IF p > 0 /\ ~isdigit(Replace(Replace(Replace(t, "/"), "."), "-"))
                  THEN LET f == PyFloat(SubSeq(t, 1, p - 1))
                       IN  IF f.some THEN f ELSE Float(0)
             ELSE IF m # <<>>
                  THEN LET f == PyFloat(m) IN IF f.some THEN f ELSE Float(0)
             ELSE Float(0)

(***************************************************************************)
(* ValueComparator.compare                                                 *)
(***************************************************************************)
Abs(x) == IF x < 0 THEN -x ELSE x

\* pd.isna(val) or str(val).strip() == ""
is_empty(v) == isna(v) \/ Strip(Str(v)) = <<>>

\* a slip the tests below must notice: a difference equal to the tolerance
\* counted as a difference
compare_strict(a, b) ==
    LET d == to_numeric(a).v - to_numeric(b).v
    IN  IF is_empty(a) /\ is_empty(b) THEN [equal |-> TRUE, difference |-> None]
        ELSE IF is_empty(a) # is_empty(b)
             THEN [equal |-> FALSE,
                   difference |-> IF is_numeric(a) \/ is_numeric(b) THEN Float(d) ELSE None]
        ELSE IF is_numeric(a) /\ is_numeric(b)
             THEN IF Abs(d) < NUMERIC_TOLERANCE
                  THEN [equal |-> TRUE, difference |-> None]
                  ELSE [equal |-> FALSE, difference |-> Float(d)]
        ELSE [equal |-> normalize(a) = normalize(b), difference |-> None]

compare(a, b) ==
    LET d == to_numeric(a).v - to_numeric(b).v
    IN  IF is_empty(a) /\ is_empty(b) THEN [equal |-> TRUE, difference |-> None]
        ELSE IF is_empty(a) # is_empty(b)
             THEN [equal |-> FALSE,
                   difference |-> IF is_numeric(a) \/ is_numeric(b) THEN Float(d) ELSE None]
        ELSE IF is_numeric(a) /\ is_numeric(b)
             THEN IF Abs(d) <= NUMERIC_TOLERANCE
                  THEN [equal |-> TRUE, difference |-> None]
                  ELSE [equal |-> FALSE, difference |-> Float(d)]
        ELSE [equal |-> normalize(a) = normalize(b), difference |-> None]

(***************************************************************************)
(* Python dicts, kept as the sequence of their <<key, value>> items in     *)
(* insertion order.                                                        *)
(***************************************************************************)
DictHas(d, k) == \E i \in 1..Len(d) : d[i][1] = k

DictGet(d, k) == d[CHOOSE i \in 1..Len(d) : d[i][1] = k][2]

\* d[k] = v: a key already there keeps its place and takes the new value
DictSet(d, k, v) ==
    IF DictHas(d, k) THEN [i \in 1..Len(d) |-> IF d[i][1] = k THEN <<k, v>> ELSE d[i]]
    ELSE Append(d, <<k, v>>)

\* del d[k]
DictDel(d, k) == SelectSeq(d, LAMBDA it : it[1] # k)

DictKeys(d) == [i \in 1..Len(d) |-> d[i][1]]

DictValues(d) == [i \in 1..Len(d) |-> d[i][2]]

Range(q) == {q[i] : i \in 1..Len(q)}

(***************************************************************************)
(* thefuzz: fuzz.ratio is 200 * LCS / (len1 + len2), rounded;              *)
(* process.extractOne runs its default processor over the query and the    *)
(* choices and returns the first choice of the highest score.              *)
(***************************************************************************)
RECURSIVE LCS(_, _)
LCS(a, b) ==
    IF a = <<>> \/ b = <<>> THEN 0
    ELSE IF Head(a) = Head(b) THEN 1 + LCS(Tail(a), Tail(b))
    ELSE IF \A i \in 1..Len(b) : b[i] # Head(a) THEN LCS(Tail(a), b)
    ELSE LET x == LCS(Tail(a), b)
             y == LCS(a, Tail(b))
         IN  IF x >= y THEN x ELSE y

ratio(a, b) ==
    IF Len(a) + Len(b) = 0 THEN 100
    ELSE (200 * LCS(a, b) + (Len(a) + Len(b)) \div 2) \div (Len(a) + Len(b))

\* utils.full_process: lower case, everything but letters and digits to a
\* space, trimmed
full_process(s) ==
    Strip([i \in 1..Len(s) |->
             IF s[i] \in {".", ",", "-", "/", "ZWNJ", "TAB", "ArSep"} THEN "SP"
             ELSE LowerChar(s[i])])

\* the index of the first choice of the highest score, 0 without choices
RECURSIVE BestIndex(_, _, _)
BestIndex(q, choices, i) ==
    IF i > Len(choices) THEN 0
    ELSE LET later == BestIndex(q, choices, i + 1)
         IN  IF later = 0 THEN i
             ELSE IF ratio(q, full_process(choices[i]))
                       >= ratio(q, full_process(choices[later]))
                  THEN i ELSE later

\* process.extractOne(query, choices, scorer=fuzz.ratio): <<choice, score>>,
\* or <<>> for Python's None
extractOne(query, choices) ==
    LET q == full_process(query)
        i == BestIndex(q, choices, 1)
    IN  IF i = 0 THEN <<>>
        ELSE <<choices[i], ratio(q, full_process(choices[i]))>>

(***************************************************************************)
(* ColumnMapper._build_mapping                                             *)
(***************************************************************************)
\* {normalize_for_comparison(col): col for col in columns}
RECURSIVE NormalizedDict(_)
NormalizedDict(columns) ==
    IF columns = <<>> THEN <<>>
    ELSE LET col == columns[Len(columns)]
         IN  DictSet(NormalizedDict(SubSeq(columns, 1, Len(columns) - 1)),
                     normalize_for_comparison(Txt(col)), col)

\* first pass: the labels equal after normalisation
RECURSIVE ExactPass(_, _, _)
ExactPass(items, contractor_normalized, m) ==
    IF items = <<>> THEN m
    ELSE LET emp_norm == Head(items)[1]
             emp_orig == Head(items)[2]
         IN  ExactPass(Tail(items), contractor_normalized,
                       IF DictHas(contractor_normalized, emp_norm)
                       THEN DictSet(m, emp_orig, DictGet(contractor_normalized, emp_norm))
                       ELSE m)

\* a slip the tests below must notice: the matched label stays a candidate
RECURSIVE FuzzyPassNoDel(_, _, _)
FuzzyPassNoDel(unmatched_employer, contractor_norm_map, m) ==
    IF unmatched_employer = <<>> THEN m
    ELSE LET emp_col == Head(unmatched_employer)
             match == extractOne(normalize_for_comparison(Txt(emp_col)),
                                 DictKeys(contractor_norm_map))
         IN  IF match # <<>> /\ match[2] >= COLUMN_MATCH_THRESHOLD
             THEN FuzzyPassNoDel(Tail(unmatched_employer), contractor_norm_map,
                                 DictSet(m, emp_col, DictGet(contractor_norm_map, match[1])))
             ELSE FuzzyPassNoDel(Tail(unmatched_employer), contractor_norm_map, m)

\* second pass: the best fuzzy match of each label still unmatched
RECURSIVE FuzzyPass(_, _, _)
FuzzyPass(unmatched_employer, contractor_norm_map, m) ==
    IF unmatched_employer = <<>> THEN m
    ELSE LET emp_col == Head(unmatched_employer)
             match == extractOne(normalize_for_comparison(Txt(emp_col)),
                                 DictKeys(contractor_norm_map))
         IN  IF match # <<>> /\ match[2] >= COLUMN_MATCH_THRESHOLD
             THEN FuzzyPass(Tail(unmatched_employer),
                            DictDel(contractor_norm_map, match[1]),
                            DictSet(m, emp_col, DictGet(contractor_norm_map, match[1])))
             ELSE FuzzyPass(Tail(unmatched_employer), contractor_norm_map, m)

\* a slip the tests below must notice: the first pass takes only labels that
\* are equal as written
build_mapping_raw(emp_cols, con_cols) ==
    LET first == ExactPass([i \in 1..Len(emp_cols) |-> <<emp_cols[i], emp_cols[i]>>],
                           [i \in 1..Len(con_cols) |-> <<con_cols[i], con_cols[i]>>], <<>>)
        unmatched_employer == SelectSeq(emp_cols, LAMBDA col : ~DictHas(first, col))
        unmatched_contractor ==
            SelectSeq(con_cols, LAMBDA col : col \notin Range(DictValues(first)))
    IN  IF unmatched_employer # <<>> /\ unmatched_contractor # <<>>
        THEN FuzzyPass(unmatched_employer, NormalizedDict(unmatched_contractor), first)
        ELSE first

\* a slip the tests below must notice: see FuzzyPassNoDel
build_mapping_nodel(emp_cols, con_cols) ==
    LET employer_normalized == NormalizedDict(emp_cols)
        contractor_normalized == NormalizedDict(con_cols)
        first == ExactPass(employer_normalized, contractor_normalized, <<>>)
        used_contractor_cols == Range(DictValues(first))
        unmatched_employer == SelectSeq(emp_cols, LAMBDA col : ~DictHas(first, col))
        unmatched_contractor ==
            SelectSeq(con_cols, LAMBDA col : col \notin used_contractor_cols)
    IN  IF unmatched_employer # <<>> /\ unmatched_contractor # <<>>
        THEN FuzzyPassNoDel(unmatched_employer, NormalizedDict(unmatched_contractor), first)
        ELSE first

build_mapping(emp_cols, con_cols) ==
    LET employer_normalized == NormalizedDict(emp_cols)
        contractor_normalized == NormalizedDict(con_cols)
        first == ExactPass(employer_normalized, contractor_normalized, <<>>)
        used_contractor_cols == Range(DictValues(first))
        unmatched_employer == SelectSeq(emp_cols, LAMBDA col : ~DictHas(first, col))
        unmatched_contractor ==
            SelectSeq(con_cols, LAMBDA col : col \notin used_contractor_cols)
    IN  IF unmatched_employer # <<>> /\ unmatched_contractor # <<>>
        THEN FuzzyPass(unmatched_employer, NormalizedDict(unmatched_contractor), first)
        ELSE first

(***************************************************************************)
(* DataFrames: the column labels and the rows, a row being the sequence of *)
(* its cells in column order.                                              *)
(***************************************************************************)
ColIndex(columns, col) == CHOOSE i \in 1..Len(columns) : columns[i] = col

Cell(df, i, col) == df.rows[i][ColIndex(df.columns, col)]

Min(a, b) == IF a <= b THEN a ELSE b

(***************************************************************************)
(* RowAligner                                                              *)
(***************************************************************************)
ID_COLUMN_CANDIDATES ==
    << <<"Re", "Dal", "FaYeh", "Fe">>,
       <<"Shin", "Mim", "Alef", "Re", "He", "SP", "Re", "Dal", "FaYeh", "Fe">>,
       <<"AlefMadda", "FaYeh", "Te", "Mim">>,
       <<"Shin", "Nun", "Alef", "Sin", "He">>,
       <<"FaKaf", "Dal">>,
       <<"R", "o", "w", "SP", "N", "u", "m", "b", "e", "r">>,
       <<"I", "t", "e", "m", "SP", "I", "D">>,
       <<"I", "D">>,
       <<"Shin", "Mim", "Alef", "Re", "He">>,
       <<"Shin">>,
       <<"r", "o", "w">>,
       <<"i", "d">>,
       <<"i", "t", "e", "m">> >>

\* the first column whose normalised label scores 80 or more, <<>> if none
RECURSIVE FuzzyColumn(_, _)
FuzzyColumn(candidate_norm, items) ==
    IF items = <<>> THEN <<>>
    ELSE IF ratio(candidate_norm, Head(items)[1]) >= 80 THEN Head(items)[2]
    ELSE FuzzyColumn(candidate_norm, Tail(items))

RECURSIVE FindIdFrom(_, _)
FindIdFrom(k, columns_normalized) ==
    IF k > Len(ID_COLUMN_CANDIDATES) THEN <<>>
    ELSE LET candidate_norm == normalize_for_comparison(Txt(ID_COLUMN_CANDIDATES[k]))
         IN  IF DictHas(columns_normalized, candidate_norm)
             THEN DictGet(columns_normalized, candidate_norm)
             ELSE IF FuzzyColumn(candidate_norm, columns_normalized) # <<>>
                  THEN FuzzyColumn(candidate_norm, columns_normalized)
             ELSE FindIdFrom(k + 1, columns_normalized)

\* RowAligner.find_id_column: the label of the identifier column, <<>> for None
find_id_column(df) == FindIdFrom(1, NormalizedDict(df.columns))

\* df[id_col].apply(PersianNormalizer.normalize): the _align_key of every row
AlignKeys(df, id_col) == [i \in 1..Len(df.rows) |-> normalize(Cell(df, i, id_col))]

\* Index.unique(): the values in the order of their first appearance
RECURSIVE Unique(_)
Unique(q) ==
    IF q = <<>> THEN <<>>
    ELSE LET u == Unique(SubSeq(q, 1, Len(q) - 1))
         IN  IF q[Len(q)] \in Range(u) THEN u ELSE Append(u, q[Len(q)])

\* Index.intersection: the distinct values of the left index, in its order,
\* that the right index holds too
Intersection(left, right) == SelectSeq(Unique(left), LAMBDA k : k \in Range(right))

\* the row numbers i of keys with keys[i] = k, ascending
RECURSIVE RowsOf(_, _, _)
RowsOf(keys, k, i) ==
    IF i > Len(keys) THEN <<>>
    ELSE (IF keys[i] = k THEN <<i>> ELSE <<>>) \o RowsOf(keys, k, i + 1)

\* df.loc[labels] on an index that may repeat: for each label in turn, every
\* row that carries it
RECURSIVE Loc(_, _)
Loc(keys, labels) ==
    IF labels = <<>> THEN <<>>
    ELSE RowsOf(keys, Head(labels), 1) \o Loc(keys, Tail(labels))

\* RowAligner.align_dataframes: the rows kept of each frame, as their row
\* numbers in the frame given, and the employer's identifier column
align_dataframes(dfe, dfc) ==
    LET emp_id_col == find_id_column(dfe)
        con_id_col == find_id_column(dfc)
        emp_keys   == AlignKeys(dfe, emp_id_col)
        con_keys   == AlignKeys(dfc, con_id_col)
        common_idx == Intersection(emp_keys, con_keys)
        min_len    == Min(Len(dfe.rows), Len(dfc.rows))
    IN  IF emp_id_col # <<>> /\ con_id_col # <<>>
        THEN [employer |-> Loc(emp_keys, common_idx),
              contractor |-> Loc(con_keys, common_idx),
              id_column |-> emp_id_col]
        ELSE [employer |-> [i \in 1..min_len |-> i],
              contractor |-> [i \in 1..min_len |-> i],
              id_column |-> <<>>]

(***************************************************************************)
(* ExcelComparator._compare_data                                           *)
(***************************************************************************)
\* the row identifier of the row at position row_idx of the aligned frame
RowId(row_idx) ==
    IF id_column # <<>>
    THEN Str(Cell(df_employer, aligned_employer[row_idx], id_column))
    ELSE NatDigits(row_idx)

\* the disputes of one row: one per mapped column whose cells do not compare
\* equal
RECURSIVE RowDisputes(_, _)
RowDisputes(row_idx, mapped_columns) ==
    IF mapped_columns = <<>> THEN <<>>
    ELSE LET emp_col   == Head(mapped_columns)[1]
             con_col   == Head(mapped_columns)[2]
             emp_value == Cell(df_employer, aligned_employer[row_idx], emp_col)
             con_value == Cell(df_contractor, aligned_contractor[row_idx], con_col)
             res       == compare(con_value, emp_value)
         IN  (IF res.equal THEN <<>>
              ELSE << [row_identifier |-> RowId(row_idx),
                       column_name |-> emp_col,
                       contractor_value |-> con_value,
                       employer_value |-> emp_value,
                       difference |-> res.difference] >>)
             \o RowDisputes(row_idx, Tail(mapped_columns))

RECURSIVE DisputesFrom(_)
DisputesFrom(row_idx) ==
    IF row_idx > Len(aligned_employer) THEN <<>>
    ELSE RowDisputes(row_idx, mapping) \o DisputesFrom(row_idx + 1)

\* df_contractor.iloc[row_idx] past the last row of the contractor's frame
\* raises IndexError
CompareRaises ==
    mapping # <<>> /\ Len(aligned_employer) > Len(aligned_contractor)

(***************************************************************************)
(* generate_master_verified: a sheet read without a header is the sequence *)
(* of its rows, a row the sequence of its cells.  Row and column numbers   *)
(* count from 0 as in the source; None is -1 where a number is expected.   *)
(***************************************************************************)
\* keyword in text
Contains(s, k) == \E i \in 0..(Len(s) - Len(k)) : SubSeq(s, i + 1, i + Len(k)) = k

\* str.replace('\n', ' ').replace('\r', '')
ReplaceNewlines(s) ==
    SelectSeq([i \in 1..Len(s) |-> IF s[i] = "NL" THEN "SP" ELSE s[i]], LAMBDA c : c # "CR")

normalize_text(v) == IF isna(v) THEN <<>> ELSE ReplaceNewlines(Strip(Str(v)))

HEADER_KEYWORDS ==
    << <<<<"W", ".", "B", ".", "S">>, 10>>,
       <<<<"Re", "Dal", "FaYeh", "Fe">>, 8>>,
       <<<<"Shin", "Re", "Hah">>, 7>>,
       <<<<"Ain", "Nun", "Vav", "Alef", "Nun", "SP", "Fe", "Ain", "Alef", "Lam", "FaYeh", "Te">>, 9>>,
       <<<<"Ain", "Nun", "Vav", "Alef", "Nun", "SP", "Fe", "Ain", "Alef", "Lam", "ArYeh", "Te">>, 9>>,
       <<<<"Mim", "Shin", "Alef", "Vav", "Re", "SP", "Ze", "FaYeh", "Re", "Be", "Nun", "Alef", "FaYeh", "FaYeh">>, 8>>,
       <<<<"Mim", "Shin", "Alef", "Vav", "Re", "SP", "Ze", "FaYeh", "Re", "SP", "Be", "Nun", "Alef", "FaYeh", "FaYeh">>, 8>>,
       <<<<"Gaf", "Re", "Vav", "He", "SP", "Mim", "Shin", "Alef", "Re", "FaKaf", "Te">>, 8>>,
       <<<<"Pe", "FaYeh", "Mim", "Alef", "Nun", "FaKaf", "Alef", "Re">>, 7>>,
       <<<<"FaKaf", "Alef", "Re", "Fe", "Re", "Mim", "Alef">>, 7>>,
       <<<<"He", "Ze", "FaYeh", "Nun", "He", "SP", "FaKaf", "Alef", "Mim", "Lam">>, 6>>,
       <<<<"Vav", "Ze", "Nun", "SP", "FaKaf", "Alef", "Mim", "Lam">>, 5>>,
       <<<<"Fe", "Sad", "Lam", "SP", "Mim", "Re", "Te", "Be", "Tah">>, 4>> >>

AMOUNT_KEYWORDS ==
    << <<"Mim", "Be", "Lam", "Ghain">>,
       <<"A", "m", "o", "u", "n", "t">>,
       <<"Re", "FaYeh", "Alef", "Lam">> >>

\* the weights of the keywords found in one cell, summed
RECURSIVE CellScore(_, _)
CellScore(cell_text, k) ==
    IF k > Len(HEADER_KEYWORDS) THEN 0
    ELSE (IF Contains(cell_text, Lower(HEADER_KEYWORDS[k][1]))
          THEN HEADER_KEYWORDS[k][2] ELSE 0)
         + CellScore(cell_text, k + 1)

RECURSIVE calculate_header_confidence(_)
calculate_header_confidence(row) ==
    IF row = <<>> THEN 0
    ELSE CellScore(Lower(normalize_text(Head(row))), 1)
         + calculate_header_confidence(Tail(row))

\* list.sort(key=score, reverse=True): stable, so of equal scores the earlier
\* row stays first
RECURSIVE SortByScore(_)
SortByScore(scores) ==
    IF scores = <<>> THEN <<>>
    ELSE LET i == CHOOSE i \in 1..Len(scores) :
                      /\ \A j \in 1..Len(scores) : scores[j][2] <= scores[i][2]
                      /\ \A j \in 1..(i - 1) : scores[j][2] < scores[i][2]
         IN  <<scores[i]>>
             \o SortByScore(SubSeq(scores, 1, i - 1) \o SubSeq(scores, i + 1, Len(scores)))

\* scores[0] of the sorted list decides: its row and the row after it, or the
\* rows 5 and 6 when no row scores
HeaderOf(sorted) ==
    IF sorted # <<>> /\ sorted[1][2] > 0
    THEN <<sorted[1][1], sorted[1][1] + 1>>
    ELSE <<5, 6>>

detect_header_row(df, scan_rows) ==
    LET max_rows == Min(scan_rows, Len(df))
    IN  HeaderOf(SortByScore([i \in 1..max_rows |->
            <<i - 1, calculate_header_confidence(df[i])>>]))

\* find_column_by_keywords: the first column from start_col on, before end_col
\* (-1: the end of the row), whose text holds a keyword; -1 for None
RECURSIVE find_column_by_keywords(_, _, _, _)
find_column_by_keywords(row, keywords, start_col, end_col) ==
    LET end == IF end_col # -1 THEN end_col ELSE Len(row)
    IN  IF start_col >= Min(end, Len(row)) THEN -1
        ELSE IF \E k \in 1..Len(keywords) :
                    Contains(Lower(normalize_text(row[start_col + 1])), Lower(keywords[k]))
             THEN start_col
        ELSE find_column_by_keywords(row, keywords, start_col + 1, end_col)

\* pd.notna(cell_val) and str(cell_val).strip()
NonEmptyCell(v) == ~isna(v) /\ Strip(Str(v)) # <<>>

\* NextNonEmpty without the strip: a cell of whitespace ends the group
RECURSIVE NextNonEmptyUnstripped(_, _)
NextNonEmptyUnstripped(header_row, col_idx) ==
    IF col_idx >= Len(header_row) THEN Len(header_row)
    ELSE IF ~isna(header_row[col_idx + 1]) THEN col_idx
    ELSE NextNonEmptyUnstripped(header_row, col_idx + 1)

\* the first column past start_col with a cell that is not empty, the length
\* of the row if none
RECURSIVE NextNonEmpty(_, _)
NextNonEmpty(header_row, col_idx) ==
    IF col_idx >= Len(header_row) THEN Len(header_row)
    ELSE IF NonEmptyCell(header_row[col_idx + 1]) THEN col_idx
    ELSE NextNonEmpty(header_row, col_idx + 1)

\* find_group_column_span: <<start_col, end_col>>, <<-1, -1>> for (None, None)
find_group_column_span(header_row, group_name) ==
    LET Widened(start_col, end_col) ==
            IF end_col - start_col < 3
            THEN <<start_col, Min(start_col + 4, Len(header_row))>>
            ELSE <<start_col, end_col>>
        SpanFrom(start_col) ==
            IF start_col = -1 THEN <<-1, -1>>
            ELSE Widened(start_col, NextNonEmpty(header_row, start_col + 1))
    IN  SpanFrom(find_column_by_keywords(header_row, <<group_name>>, 0, -1))

\* find_amount_column_in_span
find_amount_column_in_span(subheader_row, start_col, end_col) ==
    LET fallback_col == start_col + 2
        Pick(found) ==
            IF found # -1 THEN found
            ELSE IF fallback_col < end_col THEN fallback_col
            ELSE -1
    IN  Pick(find_column_by_keywords(subheader_row, AMOUNT_KEYWORDS, start_col, end_col))

\* for group_name in group_names: the amount column of the first group that
\* is found and has one, -1 if none
RECURSIVE AmountOfGroups(_, _, _)
AmountOfGroups(header, subheader, group_names) ==
    LET Next == AmountOfGroups(header, subheader, Tail(group_names))
        InSpan(amount_col) == IF amount_col # -1 THEN amount_col ELSE Next
        OfSpan(span) ==
            IF span[1] = -1 THEN Next
            ELSE InSpan(find_amount_column_in_span(subheader, span[1], span[2]))
    IN  IF group_names = <<>> THEN -1
        ELSE OfSpan(find_group_column_span(header, Head(group_names)))

ItemIdKeywords == << <<"Re", "Dal", "FaYeh", "Fe">> >>

WbsKeywords == << <<"W", ".", "B", ".", "S">>,
                  <<"W", "B", "S">>,
                  <<"w", ".", "b", ".", "s">> >>

DescriptionKeywords ==
    << <<"Shin", "Re", "Hah">>,
       <<"Ain", "Nun", "Vav", "Alef", "Nun", "SP", "Fe", "Ain", "Alef", "Lam", "FaYeh", "Te">>,
       <<"Ain", "Nun", "Vav", "Alef", "Nun", "SP", "Fe", "Ain", "Alef", "Lam", "ArYeh", "Te">>,
       <<"D", "e", "s", "c", "r", "i", "p", "t", "i", "o", "n">> >>

EmployerGroupNames ==
    << <<"Mim", "Shin", "Alef", "Vav", "Re", "SP", "Ze", "FaYeh", "Re", "Be", "Nun", "Alef", "FaYeh", "FaYeh">>,
       <<"Mim", "Shin", "Alef", "Vav", "Re", "SP", "Ze", "FaYeh", "Re", "SP", "Be", "Nun", "Alef", "FaYeh", "FaYeh">>,
       <<"I", "n", "f", "r", "a", "s", "t", "r", "u", "c", "t", "u", "r", "e">> >>

EmployerFallbackGroups ==
    << <<"Te", "Alef", "FaYeh", "FaYeh", "Dal", "SP", "FaKaf", "Alef", "Re", "Fe", "Re", "Mim", "Alef">>,
       <<"FaKaf", "Alef", "Re", "Fe", "Re", "Mim", "Alef">>,
       <<"A", "p", "p", "r", "o", "v", "e", "d">> >>

ContractorGroupNames ==
    << <<"Pe", "FaYeh", "Mim", "Alef", "Nun", "FaKaf", "Alef", "Re", "-", "Qaf", "Tah", "Ain", "FaYeh">>,
       <<"Pe", "FaYeh", "Mim", "Alef", "Nun", "FaKaf", "Alef", "Re">>,
       <<"Gaf", "Re", "Vav", "He", "SP", "Mim", "Shin", "Alef", "Re", "FaKaf", "Te">>,
       <<"C", "o", "n", "t", "r", "a", "c", "t", "o", "r">> >>

CommentsKeywords == << <<"Te", "Vav", "Zad", "FaYeh", "Hah", "Alef", "Te">> >>

ContractorCommentsKeywords ==
    << <<"Te", "Vav", "Zad", "FaYeh", "Hah", "Alef", "Te", "SP", "Pe", "FaYeh", "Mim", "Alef", "Nun", "FaKaf", "Alef", "Re">>,
       <<"Te", "Vav", "Zad", "FaYeh", "Hah", "Alef", "Te">> >>

\* what both map_columns_* set before they look for the amount
AnchorColumns(df, header_row, subheader_row) ==
    LET header == df[header_row + 1]
    IN  [item_id_col |-> find_column_by_keywords(header, ItemIdKeywords, 0, -1),
         wbs_col |-> find_column_by_keywords(header, WbsKeywords, 0, -1),
         description_col |-> find_column_by_keywords(header, DescriptionKeywords, 0, -1),
         contractor_amount_col |-> -1,
         employer_amount_col |-> -1,
         contractor_comments_col |-> -1,
         employer_comments_col |-> -1,
         header_row |-> header_row,
         subheader_row |-> subheader_row,
         data_start_row |-> subheader_row + 1]

\* df.iloc[subheader_row] if subheader_row < len(df) else pd.Series()
SubheaderOf(df, subheader_row) ==
    IF subheader_row < Len(df) THEN df[subheader_row + 1] ELSE <<>>

\* df.iloc[header_row] raises IndexError past the last row
MapColumnsRaises(df, header_row) == header_row >= Len(df)

map_columns_employer(df, header_row, subheader_row) ==
    LET header == df[header_row + 1]
        subheader == SubheaderOf(df, subheader_row)
        Amount(primary) ==
            IF primary # -1 THEN primary
            ELSE AmountOfGroups(header, subheader, EmployerFallbackGroups)
    IN  [AnchorColumns(df, header_row, subheader_row) EXCEPT
            !.employer_amount_col =
                Amount(AmountOfGroups(header, subheader, EmployerGroupNames)),
            !.employer_comments_col =
                find_column_by_keywords(header, CommentsKeywords, 0, -1)]

map_columns_contractor(df, header_row, subheader_row) ==
    LET header == df[header_row + 1]
        subheader == SubheaderOf(df, subheader_row)
    IN  [AnchorColumns(df, header_row, subheader_row) EXCEPT
            !.contractor_amount_col =
                AmountOfGroups(header, subheader, ContractorGroupNames),
            !.contractor_comments_col =
                find_column_by_keywords(header, ContractorCommentsKeywords, 0, -1)]

\* normalize_text of the cell of a mapped column, '' when the column was not
\* found or lies past the end of the row
TextAt(row, col) ==
    IF col # -1 /\ col < Len(row) THEN normalize_text(row[col + 1]) ELSE <<>>

\* the item extract_sheet_data builds of the row at row_idx
ItemOf(df, col_mapping, amount_col, comments_col, row_idx) ==
    LET row == df[row_idx + 1]
    IN  [wbs |-> persian_to_english(TextAt(row, col_mapping.wbs_col)),
         item_id |-> persian_to_english(TextAt(row, col_mapping.item_id_col)),
         description |-> TextAt(row, col_mapping.description_col),
         amount |-> IF amount_col < Len(row)
                    THEN clean_numeric_value(row[amount_col + 1]).v ELSE 0,
         comments |-> TextAt(row, comments_col),
         row_num |-> row_idx + 1]

\* the items of the rows from row_idx on, the rows without a WBS code skipped
RECURSIVE ExtractItems(_, _, _, _, _)
ExtractItems(df, col_mapping, amount_col, comments_col, row_idx) ==
    LET Kept(item) == IF item.wbs = <<>> THEN <<>> ELSE <<item>>
    IN  IF row_idx >= Len(df) THEN <<>>
        ELSE Kept(ItemOf(df, col_mapping, amount_col, comments_col, row_idx))
             \o ExtractItems(df, col_mapping, amount_col, comments_col, row_idx + 1)

RECURSIVE SumAmounts(_)
SumAmounts(items) ==
    IF items = <<>> THEN 0 ELSE Head(items).amount + SumAmounts(Tail(items))

extract_sheet_data(df, col_mapping, sheet_name, is_employer) ==
    LET amount_col == IF is_employer THEN col_mapping.employer_amount_col
                      ELSE col_mapping.contractor_amount_col
        comments_col == IF is_employer THEN col_mapping.employer_comments_col
                        ELSE col_mapping.contractor_comments_col
        Extracted(items, total) ==
            [sheet_name |-> sheet_name, items |-> items, warnings |-> <<>>,
             contractor_total |-> IF is_employer THEN 0 ELSE total,
             employer_total |-> IF is_employer THEN total ELSE 0]
        WithTotal(items) == Extracted(items, SumAmounts(items))
    IN  IF amount_col = -1
        THEN [sheet_name |-> sheet_name, items |-> <<>>,
              warnings |-> << [warning |-> "Could not find amount column",
                               sheet |-> sheet_name] >>,
              contractor_total |-> 0, employer_total |-> 0]
        ELSE WithTotal(ExtractItems(df, col_mapping, amount_col, comments_col,
                                    col_mapping.data_start_row))

(***************************************************************************)
(* generate_master_verified.compare_and_merge.  An item is what            *)
(* extract_sheet_data appends for a row: its WBS code (never empty), its   *)
(* amount and its row number.                                              *)
(***************************************************************************)
\* the code points of the characters
CodeTable ==
    << <<"TAB", 9>>, <<"NL", 10>>, <<"CR", 13>>, <<"SP", 32>>, <<"!", 33>>,
       <<"#", 35>>, <<"$", 36>>, <<"%", 37>>, <<"&", 38>>, <<"'", 39>>, <<"(", 40>>,
       <<")", 41>>, <<"*", 42>>, <<"+", 43>>, <<",", 44>>, <<"-", 45>>, <<".", 46>>,
       <<"/", 47>>, <<"0", 48>>, <<"1", 49>>, <<"2", 50>>, <<"3", 51>>, <<"4", 52>>,
       <<"5", 53>>, <<"6", 54>>, <<"7", 55>>, <<"8", 56>>, <<"9", 57>>, <<":", 58>>,
       <<";", 59>>, <<"<", 60>>, <<"=", 61>>, <<">", 62>>, <<"?", 63>>, <<"@", 64>>,
       <<"A", 65>>, <<"B", 66>>, <<"C", 67>>, <<"D", 68>>, <<"E", 69>>, <<"F", 70>>,
       <<"G", 71>>, <<"H", 72>>, <<"I", 73>>, <<"J", 74>>, <<"K", 75>>, <<"L", 76>>,
       <<"M", 77>>, <<"N", 78>>, <<"O", 79>>, <<"P", 80>>, <<"Q", 81>>, <<"R", 82>>,
       <<"S", 83>>, <<"T", 84>>, <<"U", 85>>, <<"V", 86>>, <<"W", 87>>, <<"X", 88>>,
       <<"Y", 89>>, <<"Z", 90>>, <<"[", 91>>, <<"]", 93>>, <<"^", 94>>, <<"_", 95>>,
       <<"a", 97>>, <<"b", 98>>, <<"c", 99>>, <<"d", 100>>, <<"e", 101>>,
       <<"f", 102>>, <<"g", 103>>, <<"h", 104>>, <<"i", 105>>, <<"j", 106>>,
       <<"k", 107>>, <<"l", 108>>, <<"m", 109>>, <<"n", 110>>, <<"o", 111>>,
       <<"p", 112>>, <<"q", 113>>, <<"r", 114>>, <<"s", 115>>, <<"t", 116>>,
       <<"u", 117>>, <<"v", 118>>, <<"w", 119>>, <<"x", 120>>, <<"y", 121>>,
       <<"z", 122>>, <<"{", 123>>, <<"|", 124>>, <<"}", 125>>, <<"~", 126>>,
       <<"AlefMadda", 1570>>, <<"Alef", 1575>>, <<"Be", 1576>>, <<"Te", 1578>>,
       <<"Jim", 1580>>, <<"Hah", 1581>>, <<"Khe", 1582>>, <<"Dal", 1583>>,
       <<"Re", 1585>>, <<"Ze", 1586>>, <<"Sin", 1587>>, <<"Shin", 1588>>,
       <<"Sad", 1589>>, <<"Zad", 1590>>, <<"Tah", 1591>>, <<"Ain", 1593>>,
       <<"Ghain", 1594>>, <<"Fe", 1601>>, <<"Qaf", 1602>>, <<"ArKaf", 1603>>,
       <<"Lam", 1604>>, <<"Mim", 1605>>, <<"Nun", 1606>>, <<"He", 1607>>,
       <<"Vav", 1608>>, <<"ArYeh", 1610>>, <<"Ar0", 1632>>, <<"Ar1", 1633>>,
       <<"Ar2", 1634>>, <<"Ar3", 1635>>, <<"Ar4", 1636>>, <<"Ar5", 1637>>,
       <<"Ar6", 1638>>, <<"Ar7", 1639>>, <<"Ar8", 1640>>, <<"Ar9", 1641>>,
       <<"Pe", 1662>>, <<"FaKaf", 1705>>, <<"Gaf", 1711>>, <<"FaYeh", 1740>>,
       <<"Fa0", 1776>>, <<"Fa1", 1777>>, <<"Fa2", 1778>>, <<"Fa3", 1779>>,
       <<"Fa4", 1780>>, <<"Fa5", 1781>>, <<"Fa6", 1782>>, <<"Fa7", 1783>>,
       <<"Fa8", 1784>>, <<"Fa9", 1785>>, <<"ZWNJ", 8204>> >>

CodePointOf ==
    [c \in {CodeTable[i][1] : i \in 1..Len(CodeTable)} |->
        CodeTable[CHOOSE i \in 1..Len(CodeTable) : CodeTable[i][1] = c][2]]

CodePoint(c) == CodePointOf[c]

\* a < b for Python strings
RECURSIVE StrLess(_, _)
StrLess(a, b) ==
    IF b = <<>> THEN FALSE
    ELSE IF a = <<>> THEN TRUE
    ELSE IF Head(a) # Head(b) THEN CodePoint(Head(a)) < CodePoint(Head(b))
    ELSE StrLess(Tail(a), Tail(b))

\* sorted(S) for a set of strings
RECURSIVE Sorted(_)
Sorted(S) ==
    IF S = {} THEN <<>>
    ELSE LET least == CHOOSE x \in S : \A y \in S \ {x} : StrLess(x, y)
         IN  <<least>> \o Sorted(S \ {least})

\* {item['wbs']: item for item in items}
RECURSIVE Lookup(_)
Lookup(items) ==
    IF items = <<>> THEN <<>>
    ELSE DictSet(Lookup(SubSeq(items, 1, Len(items) - 1)),
                 items[Len(items)].wbs, items[Len(items)])

\* item_id, description and the comments are copied through and left out here
\* the record of one WBS code
MergedItem(wbs, contractor_lookup, employer_lookup) ==
    LET Merged(contractor_amount, employer_amount) ==
            [wbs |-> wbs,
             contractor_amount |-> contractor_amount,
             employer_amount |-> employer_amount,
             difference |-> contractor_amount - employer_amount,
             is_dispute |-> Abs(contractor_amount - employer_amount) > Unit \div 100,
             only_in_contractor |-> ~DictHas(employer_lookup, wbs),
             only_in_employer |-> ~DictHas(contractor_lookup, wbs)]
    IN  Merged(IF DictHas(contractor_lookup, wbs)
               THEN DictGet(contractor_lookup, wbs).amount ELSE 0,
               IF DictHas(employer_lookup, wbs)
               THEN DictGet(employer_lookup, wbs).amount ELSE 0)

compare_and_merge(cd, ed) ==
    LET Merge(contractor_lookup, employer_lookup) ==
            LET Each(all_wbs) ==
                    [k \in 1..Len(all_wbs) |->
                        MergedItem(all_wbs[k], contractor_lookup, employer_lookup)]
            IN  Each(Sorted(Range(DictKeys(contractor_lookup))
                            \cup Range(DictKeys(employer_lookup))))
    IN  Merge(Lookup(cd.items), Lookup(ed.items))

(***************************************************************************)
(* Each specification below runs one component; the variables of the       *)
(* others stay at these values.                                            *)
(***************************************************************************)
IdleNormalize ==
    /\ text = NaN
    /\ normalized = <<>>
    /\ renormalized = <<>>

NoConv == [is_numeric |-> FALSE, to_numeric |-> None,
           clean_numeric_value |-> None, clean_numeric |-> None]

IdleNumeric ==
    /\ value = NaN
    /\ conv = NoConv

NoCmp == [equal |-> FALSE, difference |-> None]

IdleCompare ==
    /\ val1 = NaN
    /\ val2 = NaN
    /\ NUMERIC_TOLERANCE = Unit \div 100
    /\ cmp = NoCmp

IdleMapper ==
    /\ employer_columns = <<>>
    /\ contractor_columns = <<>>
    /\ COLUMN_MATCH_THRESHOLD = 75
    /\ mapping = <<>>

NoFrame == [columns |-> <<>>, rows |-> <<>>]

IdleRun ==
    /\ df_employer = NoFrame
    /\ df_contractor = NoFrame
    /\ aligned_employer = <<>>
    /\ aligned_contractor = <<>>
    /\ id_column = <<>>
    /\ disputes = <<>>

NoSheetData == [items |-> <<>>, warnings |-> <<>>]

IdleMerge ==
    /\ contractor_data = NoSheetData
    /\ employer_data = NoSheetData
    /\ results = <<>>

NoFile == [status |-> "missing", sheets |-> <<>>]

NoReport == [written |-> FALSE, sheets |-> <<>>, total_items |-> 0, total_disputes |-> 0,
             total_contractor |-> 0, total_employer |-> 0]

IdleProcess ==
    /\ contractor_file = NoFile
    /\ employer_file = NoFile
    /\ todo = <<>>
    /\ all_results = <<>>
    /\ warnings_log = <<>>
    /\ extracted = <<>>
    /\ exit_code = -1
    /\ report = NoReport

IdleLocate ==
    /\ sheet = <<>>
    /\ max_scan_rows = 0
    /\ header_location = <<>>
    /\ group_spans = <<>>

IdleColumns == amount_cols = <<>>

IdleSheet ==
    /\ available_sheets = <<>>
    /\ target_sheet = <<>>
    /\ found_sheet = <<>>

IdleExtract ==
    /\ contractor_ws = <<>>
    /\ employer_ws = <<>>
    /\ sheet_rows = <<>>
    /\ IdleColumns
    /\ IdleSheet

(***************************************************************************)
(* Specification of the numeric conversions: one argument, converted by    *)
(* each of them.                                                           *)
(***************************************************************************)
NumChars == {"0", "1", "Fa1", "Ar1", ",", "ArSep", "SP", ".", "-", "/", "x"}

NumInputs == {NaN, Num(0), Num(100 * Unit), Num(-(5 * Unit) \div 10)}
             \cup {Txt(q) : q \in SeqsUpTo(NumChars, MaxTextLen)}

InitNumeric ==
    /\ pc = "start"
    /\ value \in NumInputs
    /\ conv = NoConv
    /\ IdleNormalize
    /\ IdleCompare
    /\ IdleMapper
    /\ IdleRun
    /\ IdleMerge
    /\ IdleProcess
    /\ IdleLocate
    /\ IdleExtract

Convert ==
    /\ pc = "start"
    /\ conv' = [is_numeric |-> is_numeric(value),
                to_numeric |-> to_numeric(value),
                clean_numeric_value |-> clean_numeric_value(value),
                clean_numeric |-> clean_numeric(value)]
    /\ pc' = "done"
    /\ UNCHANGED <<value, normVars, cmpVars, mapVars, runVars, mergeVars, procVars, locVars, extVars>>

SpecNumeric == InitNumeric /\ [][Convert]_vars

\* an argument with nothing numeric in it: NaN, or a text without any digit
\* (the empty text, a dash, letters, separators)
NoNumericInterpretation(v) ==
    \/ isna(v)
    \/ v.tag = "text" /\ \A i \in 1..Len(v.s) : ~IsDigit(v.s[i])

\* C3 as stated: an argument without numeric interpretation converts to null
ToNumberNullForNonNumeric ==
    pc = "done" /\ NoNumericInterpretation(value) => conv.to_numeric = None

\* C3 as the code has it: the conversions never return null; an argument
\* without numeric interpretation converts to 0.0, the value of a parsed
\* zero, and is_numeric is what tells the two apart
ToNumberZeroForNonNumeric ==
    pc = "done" =>
        /\ conv.to_numeric.some
        /\ conv.clean_numeric_value.some
        /\ conv.clean_numeric.some
        /\ NoNumericInterpretation(value) =>
              /\ conv.to_numeric = Float(0)
              /\ conv.clean_numeric_value = Float(0)
              /\ conv.clean_numeric = Float(0)
              /\ ~conv.is_numeric

\* reached: a dash has been converted, and came out as 0.0
ToNumberZeroWitness ==
    /\ pc = "done"
    /\ value = Txt(<<"-">>)
    /\ conv.to_numeric = Float(0)
    /\ ~conv.is_numeric

(***************************************************************************)
(* Specification of the normaliser: one argument, normalised twice.        *)
(***************************************************************************)
NormChars == {"a", "ArYeh", "FaYeh", "Fa1", "1", "ZWNJ", "SP", "TAB"}

NormInputs == {NaN, Num(0), Num(100 * Unit), Num(-(5 * Unit) \div 10)}
              \cup {Txt(q) : q \in SeqsUpTo(NormChars, MaxTextLen)}

InitNormalize ==
    /\ pc = "start"
    /\ text \in NormInputs
    /\ normalized = <<>>
    /\ renormalized = <<>>
    /\ IdleNumeric
    /\ IdleCompare
    /\ IdleMapper
    /\ IdleRun
    /\ IdleMerge
    /\ IdleProcess
    /\ IdleLocate
    /\ IdleExtract

Normalize ==
    /\ pc = "start"
    /\ normalized' = normalize(text)
    /\ renormalized' = normalize(Txt(normalize(text)))
    /\ pc' = "done"
    /\ UNCHANGED <<text, numVars, cmpVars, mapVars, runVars, mergeVars, procVars, locVars, extVars>>

SpecNormalize == InitNormalize /\ [][Normalize]_vars

\* C1: normalising a normalised text changes nothing, for every argument
\* (NaN, numbers, texts with zero-width marks, locale digits, space runs).
NormalizeIdempotent == pc = "done" => renormalized = normalized

\* reached: a text with a zero-width mark between spaces and a locale digit
\* has been normalised to something shorter
NormalizeIdempotentWitness ==
    /\ pc = "done"
    /\ text.tag = "text"
    /\ \E i \in 1..Len(text.s) : text.s[i] = "ZWNJ"
    /\ \E i \in 1..Len(text.s) : text.s[i] \in {"SP", "TAB"}
    /\ \E i \in 1..Len(text.s) : text.s[i] = "Fa1"
    /\ normalized = <<"1">>
(***************************************************************************)
(* Specification of the comparator: two cell values and a tolerance.       *)
(***************************************************************************)
CmpChars == {"1", "Fa1", "x", "SP", "ZWNJ"}

\* the numbers are decimals that binary floating point keeps on the same side of
\* every tolerance below as exact arithmetic does
CmpValues == {NaN, Num(0), Num(100 * Unit), Num(100 * Unit + 5), Num(101 * Unit)}
             \cup {Txt(q) : q \in SeqsUpTo(CmpChars, MaxCmpLen)}

Tolerances == {0, Unit \div 100, Unit}

InitCompare ==
    /\ pc = "start"
    /\ val1 \in CmpValues
    /\ val2 \in CmpValues
    /\ NUMERIC_TOLERANCE \in Tolerances
    /\ cmp = NoCmp
    /\ IdleNormalize
    /\ IdleNumeric
    /\ IdleMapper
    /\ IdleRun
    /\ IdleMerge
    /\ IdleProcess
    /\ IdleLocate
    /\ IdleExtract

Compare ==
    /\ pc = "start"
    /\ cmp' = compare(val1, val2)
    /\ pc' = "done"
    /\ UNCHANGED <<val1, val2, NUMERIC_TOLERANCE, normVars, numVars, mapVars, runVars, mergeVars, procVars, locVars, extVars>>

SpecCompare == InitCompare /\ [][Compare]_vars

\* C7: two values that both parse as numbers are equal exactly when they are
\* no further apart than the tolerance; otherwise the result carries the
\* contractor's number minus the employer's.  100 against 100.005 at 0.01 is
\* equal, 100 against 101 differs by -1.
NumericCompareWithinTolerance ==
    pc = "done" /\ is_numeric(val1) /\ is_numeric(val2) =>
        LET A == to_numeric(val1).v
            B == to_numeric(val2).v
        IN  /\ cmp.equal <=> Abs(A - B) <= NUMERIC_TOLERANCE
            /\ ~cmp.equal => cmp.difference = Float(A - B)
            /\ cmp.equal => cmp.difference = None
            /\ (val1 = Num(100 * Unit) /\ val2 = Num(100 * Unit + 5)
                /\ NUMERIC_TOLERANCE = Unit \div 100) => cmp.equal
            /\ (val1 = Num(100 * Unit) /\ val2 = Num(101 * Unit)
                /\ NUMERIC_TOLERANCE = Unit \div 100) =>
                   ~cmp.equal /\ cmp.difference = Float(-Unit)

\* reached: 101 against 100 at tolerance 1, a difference equal to the
\* tolerance, compared equal
NumericCompareWitness ==
    /\ pc = "done"
    /\ val1 = Num(101 * Unit)
    /\ val2 = Num(100 * Unit)
    /\ NUMERIC_TOLERANCE = Unit
    /\ cmp.equal

\* the specification's "empty": null, or a text that normalises to nothing
NormalizesToEmpty(v) == isna(v) \/ normalize(v) = <<>>

\* C8: two empty values compare equal at every tolerance, and an empty value
\* never compares equal to a value that is not empty.
EmptyValuesMatch ==
    pc = "done" =>
        /\ NormalizesToEmpty(val1) /\ NormalizesToEmpty(val2) => cmp.equal
        /\ NormalizesToEmpty(val1) # NormalizesToEmpty(val2) => ~cmp.equal
(***************************************************************************)
(* Specification of the column mapper: two lists of distinct labels (the   *)
(* column index of a DataFrame read from a sheet) and a threshold.         *)
(***************************************************************************)
LabelPool == {<<"A", "m", "t">>, <<"a", "m", "t", "SP">>, <<"A", "M", "T">>,
              <<"A", "m", "n", "t">>, <<"a", "m">>, <<"I", "D">>}

LabelLists == {q \in SeqsUpTo(LabelPool, MaxCols) :
                  \A i, j \in 1..Len(q) : i # j => q[i] # q[j]}

Thresholds == {0, 75, 101}

InitMapper ==
    /\ pc = "start"
    /\ employer_columns \in LabelLists
    /\ contractor_columns \in LabelLists
    /\ COLUMN_MATCH_THRESHOLD \in Thresholds
    /\ mapping = <<>>
    /\ IdleNormalize
    /\ IdleNumeric
    /\ IdleCompare
    /\ IdleRun
    /\ IdleMerge
    /\ IdleProcess
    /\ IdleLocate
    /\ IdleExtract

BuildMapping ==
    /\ pc = "start"
    /\ mapping' = build_mapping(employer_columns, contractor_columns)
    /\ pc' = "done"
    /\ UNCHANGED <<employer_columns, contractor_columns, COLUMN_MATCH_THRESHOLD,
                   normVars, numVars, cmpVars, runVars, mergeVars, procVars, locVars, extVars>>

SpecMapper == InitMapper /\ [][BuildMapping]_vars

SameForm(a, b) == normalize_for_comparison(Txt(a)) = normalize_for_comparison(Txt(b))

\* the label is the last of its list with its normalised form
LastOfForm(cols, i) == \A j \in (i + 1)..Len(cols) : ~SameForm(cols[i], cols[j])

\* C9 as stated: every employer label is mapped to every contractor label of
\* the same normalised form, at every threshold
SameFormAlwaysMapped ==
    pc = "done" =>
        \A i \in 1..Len(employer_columns), j \in 1..Len(contractor_columns) :
            SameForm(employer_columns[i], contractor_columns[j]) =>
                /\ DictHas(mapping, employer_columns[i])
                /\ DictGet(mapping, employer_columns[i]) = contractor_columns[j]

\* C9 as the code has it: of the labels of one normalised form, the last of
\* the employer's list is mapped to the last of the contractor's list, at
\* every threshold (so a label is mapped to the label of its form whenever no
\* other label of either list has that form)
LastOfSameFormMapped ==
    pc = "done" =>
        \A i \in 1..Len(employer_columns), j \in 1..Len(contractor_columns) :
            /\ SameForm(employer_columns[i], contractor_columns[j])
            /\ LastOfForm(employer_columns, i)
            /\ LastOfForm(contractor_columns, j)
            => /\ DictHas(mapping, employer_columns[i])
               /\ DictGet(mapping, employer_columns[i]) = contractor_columns[j]

\* reached: "Amt" mapped to "AMT" at a threshold no fuzzy score reaches
LastOfSameFormWitness ==
    /\ pc = "done"
    /\ COLUMN_MATCH_THRESHOLD = 101
    /\ employer_columns = <<<<"A", "m", "t">>>>
    /\ contractor_columns = <<<<"A", "M", "T">>>>
    /\ mapping = <<<< <<"A", "m", "t">>, <<"A", "M", "T">> >>>>

\* C10: no contractor label is the target of two employer labels and no
\* employer label is mapped twice, also when labels collide after
\* normalisation.
MappingInjective ==
    pc = "done" =>
        \A i, j \in 1..Len(mapping) :
            i # j => mapping[i][1] # mapping[j][1] /\ mapping[i][2] # mapping[j][2]

\* reached: two employer labels of one form, one mapped in the exact pass and
\* the other by fuzzy match to another contractor label
MappingInjectiveWitness ==
    /\ pc = "done"
    /\ employer_columns = << <<"A", "m", "t">>, <<"a", "m", "t", "SP">> >>
    /\ contractor_columns = << <<"A", "M", "T">>, <<"A", "m", "n", "t">> >>
    /\ mapping = << << <<"a", "m", "t", "SP">>, <<"A", "M", "T">> >>,
                    << <<"A", "m", "t">>, <<"A", "m", "n", "t">> >> >>
(***************************************************************************)
(* Specification of a run of ExcelComparator on two loaded sheets of one   *)
(* column each: an identifier column "ID" or an amount column "Amt".       *)
(* _prepare_data builds the column mapping and aligns the rows,            *)
(* _compare_data compares the aligned rows; an exception ends the run      *)
(* without a report.                                                       *)
(***************************************************************************)
RunLabels == {<<"I", "D">>, <<"A", "m", "t">>}

RunCells == {NaN, Txt(<<"1">>), Txt(<<"Fa1">>), Txt(<<"2">>)}

Frames == {[columns |-> <<c>>, rows |-> r] :
              c \in RunLabels, r \in SeqsUpTo({<<v>> : v \in RunCells}, MaxRows)}

InitRun ==
    /\ pc = "loaded"
    /\ df_employer \in Frames
    /\ df_contractor \in Frames
    /\ aligned_employer = <<>>
    /\ aligned_contractor = <<>>
    /\ id_column = <<>>
    /\ disputes = <<>>
    /\ IdleNormalize
    /\ IdleNumeric
    /\ IdleCompare
    /\ IdleMapper
    /\ IdleMerge
    /\ IdleProcess
    /\ IdleLocate
    /\ IdleExtract

PrepareData ==
    /\ pc = "loaded"
    /\ employer_columns' = df_employer.columns
    /\ contractor_columns' = df_contractor.columns
    /\ mapping' = build_mapping(df_employer.columns, df_contractor.columns)
    /\ LET a == align_dataframes(df_employer, df_contractor)
       IN  /\ aligned_employer' = a.employer
           /\ aligned_contractor' = a.contractor
           /\ id_column' = a.id_column
    /\ pc' = "prepared"
    /\ UNCHANGED <<df_employer, df_contractor, disputes, COLUMN_MATCH_THRESHOLD,
                   normVars, numVars, cmpVars, mergeVars, procVars, locVars, extVars>>

CompareData ==
    /\ pc = "prepared"
    /\ IF CompareRaises
       THEN pc' = "failed" /\ disputes' = <<>>
       ELSE pc' = "compared" /\ disputes' = DisputesFrom(1)
    /\ UNCHANGED <<df_employer, df_contractor, aligned_employer, aligned_contractor,
                   id_column, normVars, numVars, cmpVars, mapVars, mergeVars, procVars, locVars, extVars>>

SpecRun == InitRun /\ [][PrepareData \/ CompareData]_vars
Aligned == pc \in {"prepared", "compared", "failed"}

ByIdentifier == Aligned /\ id_column # <<>>

ByPosition == Aligned /\ id_column = <<>>

EmployerKeys == AlignKeys(df_employer, find_id_column(df_employer))

ContractorKeys == AlignKeys(df_contractor, find_id_column(df_contractor))

\* row i is the first row of its frame with its key
FirstOccurrence(keys, i) == \A j \in 1..(i - 1) : keys[j] # keys[i]

\* C2: under identifier alignment, of the rows of a table that collapse to
\* one normalised identifier only the first takes part in the aligned rows.
FirstOccurrenceKept ==
    ByIdentifier =>
        /\ \A p \in 1..Len(aligned_employer) :
               FirstOccurrence(EmployerKeys, aligned_employer[p])
        /\ \A p \in 1..Len(aligned_contractor) :
               FirstOccurrence(ContractorKeys, aligned_contractor[p])

\* some record of the report names the row identifier
Reported(row_identifier) ==
    \E k \in 1..Len(disputes) : disputes[k].row_identifier = row_identifier

\* C4: under positional alignment every row past the end of the shorter table
\* is reported, under its row position.
SurplusRowsReported ==
    pc = "compared" /\ id_column = <<>> =>
        /\ \A i \in (Len(df_employer.rows) + 1)..Len(df_contractor.rows) :
               Reported(NatDigits(i))
        /\ \A i \in (Len(df_contractor.rows) + 1)..Len(df_employer.rows) :
               Reported(NatDigits(i))

\* some record of the report is about the key
KeyReported(key) ==
    \E k \in 1..Len(disputes) : normalize(Txt(disputes[k].row_identifier)) = key

\* C5: under identifier alignment a key that only one table holds is
\* reported; none disappears.
OneSidedKeysReported ==
    pc = "compared" /\ id_column # <<>> =>
        /\ \A i \in 1..Len(ContractorKeys) :
               ContractorKeys[i] \notin Range(EmployerKeys) => KeyReported(ContractorKeys[i])
        /\ \A i \in 1..Len(EmployerKeys) :
               EmployerKeys[i] \notin Range(ContractorKeys) => KeyReported(EmployerKeys[i])

NoDuplicates(keys) == \A i, j \in 1..Len(keys) : i # j => keys[i] # keys[j]

\* C6: under identifier alignment of two tables without duplicate
\* identifiers, there are as many aligned pairs as the tables share distinct
\* identifiers that are not empty.
PairsEqualSharedIdentifiers ==
    ByIdentifier /\ NoDuplicates(EmployerKeys) /\ NoDuplicates(ContractorKeys) =>
        LET shared == (Range(EmployerKeys) \cap Range(ContractorKeys)) \ {<<>>}
        IN  /\ Len(aligned_employer) = Cardinality(shared)
            /\ Len(aligned_contractor) = Cardinality(shared)
(***************************************************************************)
(* Specification of the WBS merge: the items extracted from the two sheets *)
(* of one group.                                                           *)
(***************************************************************************)
WbsCodes == {<<"1">>, <<"2">>, <<"1", ".", "1">>}

Amounts == {0, 100 * Unit, 200 * Unit}

\* the items of a sheet: row numbers ascend with the rows
ItemLists == {[i \in 1..Len(q) |-> [wbs |-> q[i][1], amount |-> q[i][2], row_num |-> i]] :
                 q \in SeqsUpTo(WbsCodes \X Amounts, MaxItems)}

InitMerge ==
    /\ pc = "extracted"
    /\ contractor_data \in {[items |-> q, warnings |-> <<>>] : q \in ItemLists}
    /\ employer_data \in {[items |-> q, warnings |-> <<>>] : q \in ItemLists}
    /\ results = <<>>
    /\ IdleNormalize
    /\ IdleNumeric
    /\ IdleCompare
    /\ IdleMapper
    /\ IdleRun
    /\ IdleProcess
    /\ IdleLocate
    /\ IdleExtract

CompareAndMerge ==
    /\ pc = "extracted"
    /\ results' = compare_and_merge(contractor_data, employer_data)
    /\ pc' = "merged"
    /\ UNCHANGED <<contractor_data, employer_data, normVars, numVars, cmpVars,
                   mapVars, runVars, procVars, locVars, extVars>>

SpecMerge == InitMerge /\ [][CompareAndMerge]_vars

\* the amount of the first item of the list with the code
FirstAmount(items, wbs) ==
    items[CHOOSE i \in 1..Len(items) :
              items[i].wbs = wbs /\ \A j \in 1..(i - 1) : items[j].wbs # wbs].amount

HasDuplicates(items) ==
    \E i, j \in 1..Len(items) : i # j /\ items[i].wbs = items[j].wbs

\* C2: of the items of a sheet with one identifier the first is the one
\* merged, and a sheet with such items has a warning recorded.
FirstOccurrenceMerged ==
    pc = "merged" =>
        /\ \A k \in 1..Len(results) :
              /\ ~results[k].only_in_employer =>
                    results[k].contractor_amount =
                        FirstAmount(contractor_data.items, results[k].wbs)
              /\ ~results[k].only_in_contractor =>
                    results[k].employer_amount =
                        FirstAmount(employer_data.items, results[k].wbs)
        /\ HasDuplicates(contractor_data.items) => contractor_data.warnings # <<>>
        /\ HasDuplicates(employer_data.items) => employer_data.warnings # <<>>

(***************************************************************************)
(* Specification of a run of ExcelComparator on two sheets with an         *)
(* identifier column "ID" and an amount column "Amt".  Row i of the        *)
(* contractor's sheet claims 100 * i; the employer approves that or 5      *)
(* more.  The identifier of row i is i or, so that identifiers repeat, 2.  *)
(***************************************************************************)
MaxPairs == 3

ReconcileColumns == << <<"I", "D">>, <<"A", "m", "t">> >>

ReconcileIds(i) == {Txt(NatDigits(i)), Txt(<<"2">>)}

Claimed(i) == Num(100 * i * Unit)

Approved(i) == {Num(100 * i * Unit), Num((100 * i + 5) * Unit)}

\* the sheets of n rows
RECURSIVE ReconcileRows(_, _)
ReconcileRows(n, approver) ==
    IF n = 0 THEN {<<>>}
    ELSE {Append(q, <<id, amt>>) :
             q \in ReconcileRows(n - 1, approver),
             id \in ReconcileIds(n),
             amt \in IF approver THEN Approved(n) ELSE {Claimed(n)}}

ReconcileFrames(approver) ==
    {[columns |-> ReconcileColumns, rows |-> r] :
        r \in UNION {ReconcileRows(n, approver) : n \in 0..MaxPairs}}

InitReconcile ==
    /\ pc = "loaded"
    /\ df_employer \in ReconcileFrames(TRUE)
    /\ df_contractor \in ReconcileFrames(FALSE)
    /\ aligned_employer = <<>>
    /\ aligned_contractor = <<>>
    /\ id_column = <<>>
    /\ disputes = <<>>
    /\ IdleNormalize
    /\ IdleNumeric
    /\ IdleCompare
    /\ IdleMapper
    /\ IdleMerge
    /\ IdleProcess
    /\ IdleLocate
    /\ IdleExtract

SpecReconcile == InitReconcile /\ [][PrepareData \/ CompareData]_vars

\* the report holds a record of the cells of the pair at position p in the
\* columns m
Recorded(p, m) ==
    \E k \in 1..Len(disputes) :
        /\ disputes[k].row_identifier = RowId(p)
        /\ disputes[k].column_name = m[1]
        /\ disputes[k].employer_value = Cell(df_employer, aligned_employer[p], m[1])
        /\ disputes[k].contractor_value = Cell(df_contractor, aligned_contractor[p], m[2])

\* the cells of the pair at position p in the columns m compare equal
PairMatches(p, m) ==
    compare(Cell(df_contractor, aligned_contractor[p], m[2]),
            Cell(df_employer, aligned_employer[p], m[1])).equal

\* C11: once _compare_data has run, the report holds a record for an aligned
\* pair and a mapped column exactly when the two cells do not compare equal.
RecordIffNotMatch ==
    pc \in {"compared", "failed"} =>
        \A p \in 1..Min(Len(aligned_employer), Len(aligned_contractor)) :
            \A k \in 1..Len(mapping) :
                Recorded(p, mapping[k]) <=> ~PairMatches(p, mapping[k])

\* the same for the runs that end with a report
RecordIffNotMatchInReport ==
    pc = "compared" =>
        \A p \in 1..Len(aligned_employer) :
            \A k \in 1..Len(mapping) :
                Recorded(p, mapping[k]) <=> ~PairMatches(p, mapping[k])

ScenarioA ==
    /\ df_contractor.rows = << <<Txt(<<"1">>), Num(100 * Unit)>>,
                               <<Txt(<<"2">>), Num(200 * Unit)>>,
                               <<Txt(<<"3">>), Num(300 * Unit)>> >>
    /\ df_employer.rows = << <<Txt(<<"1">>), Num(100 * Unit)>>,
                             <<Txt(<<"2">>), Num(205 * Unit)>>,
                             <<Txt(<<"3">>), Num(300 * Unit)>> >>

\* claimed 100, 200, 300 against approved 100, 205, 300 under the identifiers
\* 1, 2, 3: one record, for 2, with the difference -5
ScenarioAOneRecord ==
    pc = "compared" /\ ScenarioA =>
        disputes = << [row_identifier |-> <<"2">>,
                       column_name |-> <<"A", "m", "t">>,
                       contractor_value |-> Num(200 * Unit),
                       employer_value |-> Num(205 * Unit),
                       difference |-> Float(-5 * Unit)] >>

ScenarioAWitness == pc = "compared" /\ ScenarioA

(***************************************************************************)
(* Specification of generate_master_verified.main: process_files visits    *)
(* the sheets the two workbooks share, in sorted order, one iteration of   *)
(* its loop per step; main then writes the report and the summary.         *)
(***************************************************************************)
MaxData == 2

skip_sheets ==
    { <<"s", "u", "m", "m", "a", "r", "y">>,
      <<"s", "u", "m", "m", "a", "r", "y", "-", "2">>,
      <<"s", "u", "m", "m", "a", "r", "y", "-", "a", "d", "j", "u", "s", "t", "m", "e", "n", "t">>,
      <<"c", "b", "s">>,
      <<"Fe", "Re", "Vav", "Shin", "SP", "ArKaf", "Alef", "Lam", "Alef", "SP", "Vav", "SP",
        "Khe", "Dal", "Mim", "Alef", "Te">> }

WbsCell == Txt(<<"W", ".", "B", ".", "S">>)

DescriptionCell == Txt(<<"Shin", "Re", "Hah">>)

EmployerGroupCell ==
    Txt(<<"Mim", "Shin", "Alef", "Vav", "Re", "SP", "Ze", "FaYeh", "Re", "Be", "Nun", "Alef",
          "FaYeh", "FaYeh">>)

ContractorGroupCell == Txt(<<"Pe", "FaYeh", "Mim", "Alef", "Nun", "FaKaf", "Alef", "Re">>)

AmountCell == Txt(<<"Mim", "Be", "Lam", "Ghain">>)

\* a header row with the group's label over three merged columns and the
\* sub-header row with the amount under the third
HeaderRows(group_cell) ==
    << <<WbsCell, DescriptionCell, group_cell, NaN, NaN>>,
       <<NaN, NaN, NaN, NaN, AmountCell>> >>

DataRow(wbs, amount) == <<wbs, Txt(<<"x">>), NaN, NaN, amount>>

\* up to MaxData data rows
DataRows(wbs_cells, amount_cells) ==
    UNION {[1..n -> {DataRow(w, a) : w \in wbs_cells, a \in amount_cells}] : n \in 0..MaxData}

\* seven rows without a keyword
BlankSheet == [i \in 1..7 |-> DataRow(Txt(<<"1">>), Num(100 * Unit))]

SheetA == <<"A">>

SheetB == <<"B">>

SheetSummary == <<"S", "u", "m", "m", "a", "r", "y">>

SummarySheet == HeaderRows(NaN) \o <<DataRow(Txt(<<"1">>), Num(100 * Unit))>>

ContractorSheetsA ==
    {HeaderRows(ContractorGroupCell) \o d :
        d \in DataRows({Txt(<<"1">>), Txt(<<"2">>)}, {Num(100 * Unit)})}

EmployerSheetsA ==
    {HeaderRows(g) \o d :
        g \in {EmployerGroupCell, NaN},
        d \in DataRows({Txt(<<"1">>), Txt(<<"2">>)}, {Num(0), Num(100 * Unit)})}
    \cup {BlankSheet, <<DataRow(Txt(<<"1">>), Num(100 * Unit))>>}

\* the second sheet of each workbook: <<>> when the workbook has none
SheetsB ==
    { <<<<>>, <<>>>>,
      <<HeaderRows(ContractorGroupCell) \o <<DataRow(Txt(<<"1">>), Num(100 * Unit))>>, <<>>>>,
      <<HeaderRows(ContractorGroupCell) \o <<DataRow(Txt(<<"1">>), Num(100 * Unit))>>,
        HeaderRows(EmployerGroupCell) \o <<DataRow(Txt(<<"1">>), Num(0))>>>>,
      <<HeaderRows(ContractorGroupCell) \o <<DataRow(Txt(<<"1">>), Num(0))>>,
        HeaderRows(EmployerGroupCell) \o <<DataRow(Txt(<<"1">>), Num(0))>>>> }

Workbook(a, b) ==
    [status |-> "ok",
     sheets |-> <<<<SheetSummary, SummarySheet>>, <<SheetA, a>>>>
                \o (IF b = <<>> THEN <<>> ELSE <<<<SheetB, b>>>>)]

\* the two files: two workbooks, or a workbook and a file that is missing or
\* cannot be read
ProcessInputs ==
    {<<Workbook(a, b[1]), Workbook(e, b[2])>> :
        a \in ContractorSheetsA, e \in EmployerSheetsA, b \in SheetsB}
    \cup {<<f, Workbook(SummarySheet, <<>>)>> :
             f \in {NoFile, [status |-> "corrupt", sheets |-> <<>>]}}
    \cup {<<Workbook(SummarySheet, <<>>), f>> :
             f \in {NoFile, [status |-> "corrupt", sheets |-> <<>>]}}

InitProcess ==
    /\ pc = "main"
    /\ \E files \in ProcessInputs :
          contractor_file = files[1] /\ employer_file = files[2]
    /\ todo = <<>>
    /\ all_results = <<>>
    /\ warnings_log = <<>>
    /\ extracted = <<>>
    /\ exit_code = -1
    /\ report = NoReport
    /\ IdleNormalize
    /\ IdleNumeric
    /\ IdleCompare
    /\ IdleMapper
    /\ IdleRun
    /\ IdleMerge
    /\ IdleLocate
    /\ IdleExtract

\* main up to the loop of process_files: a file that is not there ends the
\* run with 1, and so does the exception pd.ExcelFile raises for a file it
\* cannot read
Main ==
    /\ pc = "main"
    /\ IF contractor_file.status = "ok" /\ employer_file.status = "ok"
       THEN /\ todo' = Sorted(Range(DictKeys(contractor_file.sheets))
                              \cap Range(DictKeys(employer_file.sheets)))
            /\ pc' = "sheets"
            /\ UNCHANGED exit_code
       ELSE /\ exit_code' = 1
            /\ pc' = "exit"
            /\ UNCHANGED todo
    /\ UNCHANGED <<contractor_file, employer_file, all_results, warnings_log, extracted,
                   report, normVars, numVars, cmpVars, mapVars, runVars, mergeVars, locVars, extVars>>

Skipped(sheet_name) == Lower(sheet_name) \in skip_sheets

SkipSheet ==
    /\ pc = "sheets"
    /\ todo # <<>>
    /\ Skipped(Head(todo))
    /\ todo' = Tail(todo)
    /\ UNCHANGED <<pc, contractor_file, employer_file, all_results, warnings_log, extracted,
                   exit_code, report, normVars, numVars, cmpVars, mapVars, runVars,
                   mergeVars, locVars, extVars>>

\* the sanity checks of process_files
TotalWarnings(cd, ed, sheet_name) ==
    (IF ed.employer_total = 0 /\ Len(ed.items) > 0
     THEN << [warning |-> "EMPLOYER TOTAL = 0", sheet |-> sheet_name] >> ELSE <<>>)
    \o (IF cd.contractor_total = 0 /\ Len(cd.items) > 0
        THEN << [warning |-> "CONTRACTOR TOTAL = 0", sheet |-> sheet_name] >> ELSE <<>>)

\* the iteration of the loop once the header rows are there: an exception
\* (df.iloc[header_row] past the last row) is logged and the sheet left
SheetProcessed(sheet_name, contractor_df, employer_df, c, e) ==
    IF MapColumnsRaises(contractor_df, c[1]) \/ MapColumnsRaises(employer_df, e[1])
    THEN /\ warnings_log' = Append(warnings_log,
                                   [warning |-> "ERROR processing sheet",
                                    sheet |-> sheet_name])
         /\ UNCHANGED <<all_results, extracted>>
    ELSE \E cd \in {extract_sheet_data(contractor_df,
                                       map_columns_contractor(contractor_df, c[1], c[2]),
                                       sheet_name, FALSE)},
            ed \in {extract_sheet_data(employer_df,
                                       map_columns_employer(employer_df, e[1], e[2]),
                                       sheet_name, TRUE)} :
            \E comparison_results \in {compare_and_merge(cd, ed)} :
                /\ warnings_log' = warnings_log \o TotalWarnings(cd, ed, sheet_name)
                /\ extracted' = Append(extracted, [sheet_name |-> sheet_name,
                                                   contractor_data |-> cd,
                                                   employer_data |-> ed])
                /\ all_results' = IF comparison_results # <<>>
                                  THEN DictSet(all_results, sheet_name, comparison_results)
                                  ELSE all_results

ProcessSheet ==
    /\ pc = "sheets"
    /\ todo # <<>>
    /\ ~Skipped(Head(todo))
    /\ \E contractor_df \in {DictGet(contractor_file.sheets, Head(todo))},
          employer_df \in {DictGet(employer_file.sheets, Head(todo))} :
          \E c \in {detect_header_row(contractor_df, 20)},
             e \in {detect_header_row(employer_df, 20)} :
             SheetProcessed(Head(todo), contractor_df, employer_df, c, e)
    /\ todo' = Tail(todo)
    /\ UNCHANGED <<pc, contractor_file, employer_file, exit_code, report, normVars, numVars,
                   cmpVars, mapVars, runVars, mergeVars, locVars, extVars>>

RECURSIVE SumOf(_, _)
SumOf(items, field) ==
    IF items = <<>> THEN 0 ELSE Head(items)[field] + SumOf(Tail(items), field)

Disputes(items) == SelectSeq(items, LAMBDA i : i.is_dispute)

\* all the records, sheet after sheet
RECURSIVE AllItems(_)
AllItems(res) == IF res = <<>> THEN <<>> ELSE Head(res)[2] \o AllItems(Tail(res))

\* the end of main: without results it returns 1 and writes nothing; with
\* results it writes the report, a dashboard row and a sheet per entry of the
\* results, and prints the totals
Report ==
    /\ pc = "sheets"
    /\ todo = <<>>
    /\ IF all_results = <<>>
       THEN exit_code' = 1 /\ UNCHANGED report
       ELSE /\ exit_code' = 0
            /\ report' =
                 [written |-> TRUE,
                  sheets |-> [k \in 1..Len(all_results) |->
                                 [sheet_name |-> all_results[k][1],
                                  items |-> all_results[k][2],
                                  total_contractor |-> SumOf(all_results[k][2], "contractor_amount"),
                                  total_employer |-> SumOf(all_results[k][2], "employer_amount")]],
                  total_items |-> Len(AllItems(all_results)),
                  total_disputes |-> Len(Disputes(AllItems(all_results))),
                  total_contractor |-> SumOf(AllItems(all_results), "contractor_amount"),
                  total_employer |-> SumOf(AllItems(all_results), "employer_amount")]
    /\ pc' = "exit"
    /\ UNCHANGED <<contractor_file, employer_file, todo, all_results, warnings_log, extracted,
                   normVars, numVars, cmpVars, mapVars, runVars, mergeVars, locVars, extVars>>

SpecProcess == InitProcess /\ [][Main \/ SkipSheet \/ ProcessSheet \/ Report]_vars

\* the records of a sheet in all_results, none when it has no entry
RecordsOf(sheet_name) ==
    IF DictHas(all_results, sheet_name) THEN DictGet(all_results, sheet_name) ELSE <<>>

RECURSIVE SumTotals(_, _, _)
SumTotals(sheets, side, field) ==
    IF sheets = <<>> THEN 0
    ELSE Head(sheets)[side][field] + SumTotals(Tail(sheets), side, field)

\* C12: after a run every sheet's running totals (SheetData.contractor_total,
\* SheetData.employer_total) are the sums of the amounts of the sheet's
\* records, and the totals main prints are the sums of the sheets' totals.
GroupTotalsMatchRecords ==
    pc = "exit" /\ report.written =>
        /\ \A k \in 1..Len(extracted) :
              /\ extracted[k].contractor_data.contractor_total
                    = SumOf(RecordsOf(extracted[k].sheet_name), "contractor_amount")
              /\ extracted[k].employer_data.employer_total
                    = SumOf(RecordsOf(extracted[k].sheet_name), "employer_amount")
        /\ report.total_contractor = SumTotals(extracted, "contractor_data", "contractor_total")
        /\ report.total_employer = SumTotals(extracted, "employer_data", "employer_total")

\* the totals the report shows for a sheet are the sums over its records, and
\* the totals main prints are the sums of those
ReportTotalsMatchRecords ==
    pc = "exit" /\ report.written =>
        /\ \A k \in 1..Len(report.sheets) :
              /\ report.sheets[k].total_contractor
                    = SumOf(RecordsOf(report.sheets[k].sheet_name), "contractor_amount")
              /\ report.sheets[k].total_employer
                    = SumOf(RecordsOf(report.sheets[k].sheet_name), "employer_amount")
        /\ report.total_contractor = SumOf(report.sheets, "total_contractor")
        /\ report.total_employer = SumOf(report.sheets, "total_employer")

\* how many times the log holds the warning for the sheet
Logged(warning, sheet_name) ==
    Cardinality({k \in 1..Len(warnings_log) :
                    warnings_log[k] = [warning |-> warning, sheet |-> sheet_name]})

\* C13: the zero-total warning is logged for a sheet once, and exactly when
\* the sheet's approved total is zero, its claimed total is positive and it
\* has rows; never when the claimed total is zero too.
ZeroTotalWarningExact ==
    pc = "exit" =>
        \A k \in 1..Len(extracted) :
            Logged("EMPLOYER TOTAL = 0", extracted[k].sheet_name)
                = IF /\ extracted[k].employer_data.employer_total = 0
                     /\ extracted[k].contractor_data.contractor_total > 0
                     /\ Len(extracted[k].employer_data.items) > 0
                  THEN 1 ELSE 0

\* what the code does: the warning is logged once whenever the approved total
\* of a sheet with approved rows is zero, whatever the claimed total
ZeroTotalWarningAsCoded ==
    pc = "exit" =>
        \A k \in 1..Len(extracted) :
            Logged("EMPLOYER TOTAL = 0", extracted[k].sheet_name)
                = IF /\ extracted[k].employer_data.employer_total = 0
                     /\ Len(extracted[k].employer_data.items) > 0
                  THEN 1 ELSE 0

\* the text with every digit replaced by its equivalent among 0-9
Canonical(v) == IF v.tag = "text" THEN Txt(persian_to_english(v.s)) ELSE v

HasLocaleDigit(v) ==
    /\ v.tag = "text"
    /\ \E i \in 1..Len(v.s) : v.s[i] \in {"Fa0", "Fa1", "Fa2", "Fa3", "Ar0", "Ar1", "Ar2", "Ar3"}

\* C14: a text written with Persian or Arabic-Indic digits, with or without
\* thousands separators, converts to the value its canonical-digit
\* equivalent converts to, and is numeric exactly when that one is.
LocaleDigitsAsCanonical ==
    pc = "done" /\ HasLocaleDigit(value) =>
        /\ conv.to_numeric = to_numeric(Canonical(value))
        /\ conv.clean_numeric_value = clean_numeric_value(Canonical(value))
        /\ conv.is_numeric = is_numeric(Canonical(value))

\* reached: a number in Persian and Arabic-Indic digits with the locale
\* separator has been converted, and came out as 11
LocaleDigitsWitness ==
    /\ pc = "done"
    /\ value = Txt(<<"Fa1", "ArSep", "Ar1">>)
    /\ conv.to_numeric = Float(11 * Unit)
    /\ conv.is_numeric

(***************************************************************************)
(* column_mapping.find_header_rows.  A worksheet is the sequence of its    *)
(* rows, rows counted from 1 as openpyxl counts them; a row past the last  *)
(* one has no values.                                                      *)
(***************************************************************************)
standard_columns ==
    << <<"Re", "Dal", "FaYeh", "Fe">>,
       <<"W", ".", "B", ".", "S">>,
       <<"Ain", "Nun", "Vav", "Alef", "Nun", "SP", "Fe", "Ain", "Alef", "Lam", "FaYeh", "Te">> >>

section_headers ==
    << <<"Gaf", "Re", "Vav", "He", "SP", "Mim", "Shin", "Alef", "Re", "FaKaf", "Te">>,
       <<"Mim", "Shin", "Alef", "Vav", "Re", "SP", "Ze", "FaYeh", "Re", "Be", "Nun", "Alef", "FaYeh", "FaYeh">>,
       <<"Mim", "Shin", "Alef", "Vav", "Re", "SP", "Ze", "FaYeh", "Re", "SP", "Be", "Nun", "Alef", "FaYeh", "FaYeh">>,
       <<"Pe", "FaYeh", "Mim", "Alef", "Nun", "FaKaf", "Alef", "Re", "-", "Qaf", "Tah", "Ain", "FaYeh">> >>

\* "if v": None, 0 and the empty text do not count
Truthy(v) ==
    /\ ~isna(v)
    /\ v.tag = "num" => v.n # 0
    /\ v.tag = "text" => v.s # <<>>

\* ' '.join(str(v) for v in row_data if v)
RECURSIVE JoinRow(_)
JoinRow(row_data) ==
    IF row_data = <<>> THEN <<>>
    ELSE IF ~Truthy(Head(row_data)) THEN JoinRow(Tail(row_data))
    ELSE LET Joined(rest) == IF rest = <<>> THEN Str(Head(row_data))
                             ELSE Str(Head(row_data)) \o <<"SP">> \o rest
         IN  Joined(JoinRow(Tail(row_data)))

\* [cell.value for cell in ws[row_idx]]
RowData(ws, row_idx) == IF row_idx <= Len(ws) THEN ws[row_idx] ELSE <<>>

AnyIn(keywords, row_str) == \E k \in 1..Len(keywords) : Contains(row_str, keywords[k])

\* a slip the tests below must notice: one of the two kinds of keyword is
\* enough for a row
RECURSIVE find_header_rows_either(_, _, _)
find_header_rows_either(ws, max_search_rows, row_idx) ==
    LET Gate(row_str) == AnyIn(standard_columns, row_str) \/ AnyIn(section_headers, row_str)
    IN  IF row_idx > max_search_rows THEN <<-1, -1>>
        ELSE IF Gate(JoinRow(RowData(ws, row_idx))) THEN <<row_idx, row_idx + 1>>
        ELSE find_header_rows_either(ws, max_search_rows, row_idx + 1)

\* find_header_rows, the loop from row_idx on: <<main_header_row,
\* sub_header_row>>, <<-1, -1>> for (None, None)
RECURSIVE find_header_rows(_, _, _)
find_header_rows(ws, max_search_rows, row_idx) ==
    LET Gate(row_str) == AnyIn(standard_columns, row_str) /\ AnyIn(section_headers, row_str)
    IN  IF row_idx > max_search_rows THEN <<-1, -1>>
        ELSE IF Gate(JoinRow(RowData(ws, row_idx))) THEN <<row_idx, row_idx + 1>>
        ELSE find_header_rows(ws, max_search_rows, row_idx + 1)

(***************************************************************************)
(* Specification of the header location: one sheet, located by             *)
(* find_header_rows and by detect_header_row, and the spans of the group   *)
(* labels in the row detect_header_row names.                              *)
(***************************************************************************)
MaxSheetRows == 3

GroupLabels ==
    << <<"Gaf", "Re", "Vav", "He", "SP", "Mim", "Shin", "Alef", "Re", "FaKaf", "Te">>,
       <<"Mim", "Shin", "Alef", "Vav", "Re", "SP", "Ze", "FaYeh", "Re", "Be", "Nun", "Alef", "FaYeh", "FaYeh">> >>

\* rows without keyword, with keywords of one kind, of both kinds, with a
\* keyword spread over two cells, in lower case, and with merged group cells
LocateRows ==
    { <<NaN, Txt(<<"x">>), NaN, NaN, NaN, NaN>>,
      <<Txt(<<"W", ".", "B", ".", "S">>), NaN, Num(0), NaN, NaN, NaN>>,
      <<NaN, Txt(GroupLabels[1]), NaN, NaN, NaN, NaN>>,
      <<Txt(<<"W", ".", "B", ".", "S">>), Txt(GroupLabels[1]), NaN, Txt(GroupLabels[2]), NaN, NaN>>,
      <<Txt(<<"W", ".", "B", ".", "S">>), Txt(GroupLabels[2]), NaN, NaN, NaN, Txt(GroupLabels[1])>>,
      <<Txt(<<"Re", "Dal", "FaYeh", "Fe">>), Txt(<<"Gaf", "Re", "Vav", "He">>),
        Txt(<<"Mim", "Shin", "Alef", "Re", "FaKaf", "Te">>), NaN, NaN, NaN>>,
      <<Txt(<<"w", ".", "b", ".", "s">>), Txt(GroupLabels[2]), NaN, NaN, NaN, NaN>> }

LocateSheets == SeqsUpTo(LocateRows, MaxSheetRows)

\* the default of find_header_rows is 15, of detect_header_row 20
ScanRows == {1, 2, 20}

NoLocation == [binary |-> <<>>, ranked |-> <<>>]

InitLocate ==
    /\ pc = "binary"
    /\ sheet \in LocateSheets
    /\ max_scan_rows \in ScanRows
    /\ header_location = NoLocation
    /\ group_spans = <<>>
    /\ IdleNormalize
    /\ IdleNumeric
    /\ IdleCompare
    /\ IdleMapper
    /\ IdleRun
    /\ IdleMerge
    /\ IdleProcess
    /\ IdleExtract

FindHeaderRows ==
    /\ pc = "binary"
    /\ header_location' = [header_location EXCEPT
                              !.binary = find_header_rows(sheet, max_scan_rows, 1)]
    /\ pc' = "ranked"
    /\ UNCHANGED <<sheet, max_scan_rows, group_spans, normVars, numVars, cmpVars, mapVars,
                   runVars, mergeVars, procVars, extVars>>

DetectHeaderRow ==
    /\ pc = "ranked"
    /\ header_location' = [header_location EXCEPT
                              !.ranked = detect_header_row(sheet, max_scan_rows)]
    /\ pc' = "spans"
    /\ UNCHANGED <<sheet, max_scan_rows, group_spans, normVars, numVars, cmpVars, mapVars,
                   runVars, mergeVars, procVars, extVars>>

\* map_columns_*: df.iloc[header_row] raises past the last row; otherwise the
\* span of every group label is looked for in the header row
FindGroupSpans ==
    /\ pc = "spans"
    /\ IF MapColumnsRaises(sheet, header_location.ranked[1])
       THEN /\ group_spans' = <<>>
            /\ pc' = "raised"
       ELSE /\ group_spans' = [g \in 1..Len(GroupLabels) |->
                                  find_group_column_span(sheet[header_location.ranked[1] + 1],
                                                         GroupLabels[g])]
            /\ pc' = "done"
    /\ UNCHANGED <<sheet, max_scan_rows, header_location, normVars, numVars, cmpVars, mapVars,
                   runVars, mergeVars, procVars, extVars>>

SpecLocate == InitLocate /\ [][FindHeaderRows \/ DetectHeaderRow \/ FindGroupSpans]_vars

\* the rows find_header_rows looks at that hold a keyword of each kind
Qualifying ==
    {r \in 1..max_scan_rows :
        /\ \E k \in 1..Len(standard_columns) :
               Contains(JoinRow(RowData(sheet, r)), standard_columns[k])
        /\ \E k \in 1..Len(section_headers) :
               Contains(JoinRow(RowData(sheet, r)), section_headers[k])}

\* C15: find_header_rows returns the first of the first max_scan_rows rows
\* that holds a standard-identifier keyword and a section-label keyword, and
\* the row after it as the sub-header; without such a row it returns nothing.
BinaryGateFirstQualifying ==
    pc # "binary" =>
        IF Qualifying = {}
        THEN header_location.binary = <<-1, -1>>
        ELSE /\ header_location.binary[1] \in Qualifying
             /\ \A r \in Qualifying : header_location.binary[1] <= r
             /\ header_location.binary[2] = header_location.binary[1] + 1

\* reached: the first row holds keywords of one kind only and was passed
\* over, the second row holds both and was returned
BinaryGateWitness ==
    /\ pc = "done"
    /\ Len(sheet) >= 2
    /\ sheet[1][1] = Txt(<<"W", ".", "B", ".", "S">>)
    /\ 1 \notin Qualifying
    /\ header_location.binary = <<2, 3>>

\* the rows detect_header_row scores, as indexes into the sheet (row i of the
\* data frame is sheet[i + 1])
Scanned == 1..Min(max_scan_rows, Len(sheet))

Score(i) == calculate_header_confidence(sheet[i])

\* C16: detect_header_row returns a row among the first max_scan_rows rows
\* whose confidence is the largest of the scanned rows, and the row after it
\* as the sub-header.
RankedMaxScoreRow ==
    pc \notin {"binary", "ranked"} =>
        /\ header_location.ranked[1] + 1 \in Scanned
        /\ \A i \in Scanned : Score(i) <= Score(header_location.ranked[1] + 1)
        /\ header_location.ranked[2] = header_location.ranked[1] + 1

\* what the code does: the first row of the largest confidence when a scanned
\* row scores above zero, the rows 5 and 6 otherwise, whatever the sheet holds
RankedFirstMaxOrFallback ==
    pc \notin {"binary", "ranked"} =>
        IF \E i \in Scanned : Score(i) > 0
        THEN /\ header_location.ranked[1] + 1 \in Scanned
             /\ \A i \in Scanned : Score(i) <= Score(header_location.ranked[1] + 1)
             /\ \A i \in Scanned : i < header_location.ranked[1] + 1
                                       => Score(i) < Score(header_location.ranked[1] + 1)
             /\ header_location.ranked[2] = header_location.ranked[1] + 1
        ELSE header_location.ranked = <<5, 6>>

\* no row among the first twenty of the sheet holds a header keyword
HeaderNotFound(df) ==
    \A i \in 1..Min(20, Len(df)) : calculate_header_confidence(df[i]) = 0

\* the amount column of a side was not found in the sheet
RoleNotFound(sheet_name) ==
    \E k \in 1..Len(extracted) :
        /\ extracted[k].sheet_name = sheet_name
        /\ \/ extracted[k].contractor_data.warnings # <<>>
           \/ extracted[k].employer_data.warnings # <<>>

\* the sheets process_files has to process
SheetsToProcess ==
    {n \in Range(DictKeys(contractor_file.sheets)) \cap Range(DictKeys(employer_file.sheets)) :
        ~Skipped(n)}

\* C17: a sheet without a header row, or without the amount column of a
\* side, does not end the run: a warning naming the sheet is logged, the
\* sheet gives no records (and so nothing to the totals), and the other
\* sheets are processed.
NotFoundSkippedWithWarning ==
    pc = "exit" /\ contractor_file.status = "ok" /\ employer_file.status = "ok" =>
        /\ todo = <<>>
        /\ \A n \in SheetsToProcess :
              \/ HeaderNotFound(DictGet(contractor_file.sheets, n))
              \/ HeaderNotFound(DictGet(employer_file.sheets, n))
              \/ RoleNotFound(n)
              => /\ \E k \in 1..Len(warnings_log) : warnings_log[k].sheet = n
                 /\ RecordsOf(n) = <<>>

\* what the code keeps of it: the run goes through every sheet, and a sheet
\* whose header row lies past its last row is logged as an error and gives
\* no records
NotFoundNeverAborts ==
    pc = "exit" /\ contractor_file.status = "ok" /\ employer_file.status = "ok" =>
        /\ todo = <<>>
        /\ \A n \in SheetsToProcess :
              \/ MapColumnsRaises(DictGet(contractor_file.sheets, n),
                                  detect_header_row(DictGet(contractor_file.sheets, n), 20)[1])
              \/ MapColumnsRaises(DictGet(employer_file.sheets, n),
                                  detect_header_row(DictGet(employer_file.sheets, n), 20)[1])
              => /\ \E k \in 1..Len(warnings_log) :
                        warnings_log[k] = [warning |-> "ERROR processing sheet", sheet |-> n]
                 /\ RecordsOf(n) = <<>>

(***************************************************************************)
(* Specification of ExcelComparator.run from its first step: the files     *)
(* are validated and loaded before the data is prepared and compared.  A   *)
(* file is missing, or cannot be read, or holds the sheet find_sheet       *)
(* picks.  pc = "compared" is the run that reached report.generate(),      *)
(* pc = "failed" the run that returned False.                              *)
(***************************************************************************)
LoadFrames(approver) == {f \in ReconcileFrames(approver) : Len(f.rows) <= 2}

LoadFiles(approver) ==
    {NoFile, [status |-> "corrupt", sheets |-> <<>>]}
    \cup {[status |-> "ok", sheets |-> <<f>>] : f \in LoadFrames(approver)}

InitLoad ==
    /\ pc = "start"
    /\ employer_file \in LoadFiles(TRUE)
    /\ contractor_file \in LoadFiles(FALSE)
    /\ todo = <<>>
    /\ all_results = <<>>
    /\ warnings_log = <<>>
    /\ extracted = <<>>
    /\ exit_code = -1
    /\ report = NoReport
    /\ IdleNormalize
    /\ IdleNumeric
    /\ IdleCompare
    /\ IdleMapper
    /\ IdleRun
    /\ IdleMerge
    /\ IdleLocate
    /\ IdleExtract

\* _validate_files: FileNotFoundError for a file that is not there
ValidateFiles ==
    /\ pc = "start"
    /\ pc' = IF employer_file.status = "missing" \/ contractor_file.status = "missing"
             THEN "failed" ELSE "validated"
    /\ UNCHANGED <<normVars, numVars, cmpVars, mapVars, runVars, mergeVars, procVars, locVars, extVars>>

\* a slip the tests below must notice: a file that cannot be read is taken
\* for a table without rows
LoadDataLenient ==
    /\ pc = "validated"
    /\ df_employer' = IF employer_file.status = "ok" THEN employer_file.sheets[1]
                      ELSE [columns |-> ReconcileColumns, rows |-> <<>>]
    /\ df_contractor' = IF contractor_file.status = "ok" THEN contractor_file.sheets[1]
                        ELSE [columns |-> ReconcileColumns, rows |-> <<>>]
    /\ pc' = "loaded"
    /\ UNCHANGED <<aligned_employer, aligned_contractor, id_column, disputes,
                   normVars, numVars, cmpVars, mapVars, mergeVars, procVars, locVars, extVars>>

\* _load_data: the employer's sheet, then the contractor's; load_workbook and
\* read_excel raise for a file that cannot be read
LoadData ==
    /\ pc = "validated"
    /\ df_employer' = IF employer_file.status = "ok" THEN employer_file.sheets[1]
                      ELSE df_employer
    /\ df_contractor' = IF employer_file.status = "ok" /\ contractor_file.status = "ok"
                        THEN contractor_file.sheets[1] ELSE df_contractor
    /\ pc' = IF employer_file.status = "ok" /\ contractor_file.status = "ok"
             THEN "loaded" ELSE "failed"
    /\ UNCHANGED <<aligned_employer, aligned_contractor, id_column, disputes,
                   normVars, numVars, cmpVars, mapVars, mergeVars, procVars, locVars, extVars>>

SpecLoad == InitLoad /\ [][ValidateFiles \/ LoadData \/ PrepareData \/ CompareData]_vars

LoadFails == employer_file.status # "ok" \/ contractor_file.status # "ok"

\* C18: when one of the two files is missing or cannot be read, the run ends
\* as a failure before anything is prepared or compared: report generation
\* is never reached and no record exists.
LoadFailureNoReport ==
    LoadFails =>
        /\ pc \in {"start", "validated", "failed"}
        /\ pc = "validated" => employer_file.status # "missing"
                               /\ contractor_file.status # "missing"
        /\ disputes = <<>>
        /\ aligned_employer = <<>>
        /\ aligned_contractor = <<>>

\* reached: the employer's table was loaded, the contractor's file could not
\* be read, and the run failed
LoadFailureWitness ==
    /\ pc = "failed"
    /\ employer_file.status = "ok"
    /\ contractor_file.status = "corrupt"
    /\ df_employer = employer_file.sheets[1]
    /\ df_contractor = NoFrame

\* generate_master_verified.main likewise: it returns 1 and writes no report
MainLoadFailureNoReport ==
    pc = "exit" /\ LoadFails => exit_code = 1 /\ report = NoReport

\* the place of the first item with the WBS code among the items, 0 if none
FirstRowOf(items, wbs) ==
    IF \E i \in 1..Len(items) : items[i].wbs = wbs
    THEN CHOOSE i \in 1..Len(items) :
             /\ items[i].wbs = wbs
             /\ \A j \in 1..(i - 1) : items[j].wbs # wbs
    ELSE 0

\* the place of the sheet among the sheets of the contractor's workbook
SheetPlace(sheet_name) ==
    CHOOSE i \in 1..Len(contractor_file.sheets) : contractor_file.sheets[i][1] = sheet_name

\* C19: the records come sheet after sheet in the order of the sheets, and
\* within a sheet in the order of the source rows they were taken from.
RecordsInSourceOrder ==
    pc = "exit" =>
        /\ \A a, b \in 1..Len(all_results) :
               a < b => SheetPlace(all_results[a][1]) < SheetPlace(all_results[b][1])
        /\ \A k \in 1..Len(extracted) :
               \A i, j \in 1..Len(RecordsOf(extracted[k].sheet_name)) :
                   /\ i < j
                   /\ FirstRowOf(extracted[k].contractor_data.items,
                                 RecordsOf(extracted[k].sheet_name)[i].wbs) > 0
                   /\ FirstRowOf(extracted[k].contractor_data.items,
                                 RecordsOf(extracted[k].sheet_name)[j].wbs) > 0
                   => FirstRowOf(extracted[k].contractor_data.items,
                                 RecordsOf(extracted[k].sheet_name)[i].wbs)
                      < FirstRowOf(extracted[k].contractor_data.items,
                                   RecordsOf(extracted[k].sheet_name)[j].wbs)

\* what the code does: sheets in the sorted order of their names, records in
\* the sorted order of their WBS codes, both as strings
RecordsInSortedOrder ==
    pc = "exit" =>
        /\ \A a, b \in 1..Len(all_results) :
               a < b => StrLess(all_results[a][1], all_results[b][1])
        /\ \A k \in 1..Len(all_results) :
               \A i, j \in 1..Len(all_results[k][2]) :
                   i < j => StrLess(all_results[k][2][i].wbs, all_results[k][2][j].wbs)

\* the group labels found in the header row
Found == {g \in 1..Len(group_spans) : group_spans[g][1] # -1}

\* C20: the spans of two group labels found in one header row share no
\* column: the span that starts further left ends before the other starts.
SpansDisjoint ==
    pc = "done" =>
        \A g, h \in Found :
            g # h =>
                \/ group_spans[g][2] <= group_spans[h][1]
                \/ group_spans[h][2] <= group_spans[g][1]

\* what the code keeps of it: every span starts at its label, ends within the
\* row, and is disjoint from the others when ended at the next cell that is
\* not empty, as it is before it is widened
SpansBeforeWidening ==
    pc = "done" =>
        \A g, h \in Found :
            /\ group_spans[g][1] < group_spans[g][2]
            /\ group_spans[g][2] <= Len(sheet[header_location.ranked[1] + 1])
            /\ group_spans[g][1] < group_spans[h][1] =>
                   NextNonEmpty(sheet[header_location.ranked[1] + 1], group_spans[g][1] + 1)
                       <= group_spans[h][1]

(***************************************************************************)
(* column_mapping: the amount column of a section and extract_sheet_data.  *)
(* Columns and rows are counted from 1, as openpyxl counts them; -1 stands *)
(* for None where a column or a row is returned.                           *)
(***************************************************************************)
CONTRACTOR_CLAIM_HEADERS ==
    << <<"Pe", "FaYeh", "Mim", "Alef", "Nun", "FaKaf", "Alef", "Re", "-", "Qaf", "Tah", "Ain", "FaYeh">>,
       <<"Pe", "FaYeh", "Mim", "Alef", "Nun", "FaKaf", "Alef", "Re">>,
       <<"Gaf", "Re", "Vav", "He", "SP", "Mim", "Shin", "Alef", "Re", "FaKaf", "Te">> >>

EMPLOYER_APPROVAL_HEADERS ==
    << <<"Mim", "Shin", "Alef", "Vav", "Re", "SP", "Ze", "FaYeh", "Re", "Be", "Nun", "Alef", "FaYeh", "FaYeh">>,
       <<"Mim", "Shin", "Alef", "Vav", "Re", "SP", "Ze", "FaYeh", "Re", "SP", "Be", "Nun", "Alef", "FaYeh", "FaYeh">> >>

AMOUNT_HEADER_PATTERN == <<"Mim", "Be", "Lam", "Ghain">>

\* ws.cell(row, column).value, None outside the sheet
CellValue(ws, row, column) ==
    IF row >= 1 /\ row <= Len(ws) /\ column >= 1 /\ column <= Len(ws[row])
    THEN ws[row][column] ELSE NaN

\* the first column from col_idx on whose main header names the section,
\* -1 if none
RECURSIVE SectionStart(_, _, _)
SectionStart(main_headers, headers, col_idx) ==
    IF col_idx > Len(main_headers) THEN -1
    ELSE IF Truthy(main_headers[col_idx]) /\ AnyIn(headers, Str(main_headers[col_idx]))
         THEN col_idx
    ELSE SectionStart(main_headers, headers, col_idx + 1)

\* the column before the next main header that is not None, the last column
\* if none follows
RECURSIVE SectionEnd(_, _)
SectionEnd(main_headers, next_col) ==
    IF next_col > Len(main_headers) THEN Len(main_headers)
    ELSE IF ~isna(main_headers[next_col]) THEN next_col - 1
    ELSE SectionEnd(main_headers, next_col + 1)

\* the first column of section_start_col..section_end_col whose sub-header
\* holds the amount pattern, -1 if none
RECURSIVE AmountFrom(_, _, _)
AmountFrom(sub_headers, col, section_end_col) ==
    IF col > section_end_col THEN -1
    ELSE IF col <= Len(sub_headers) /\ Truthy(sub_headers[col])
            /\ Contains(Str(sub_headers[col]), AMOUNT_HEADER_PATTERN)
         THEN col
    ELSE AmountFrom(sub_headers, col + 1, section_end_col)

find_amount_column_for_section(ws, main_header_row, sub_header_row, headers) ==
    LET InSection(main_headers, section_start_col) ==
            IF section_start_col = -1 THEN -1
            ELSE AmountFrom(RowData(ws, sub_header_row), section_start_col,
                            SectionEnd(main_headers, section_start_col + 1))
        OfRow(main_headers) == InSection(main_headers, SectionStart(main_headers, headers, 1))
    IN  OfRow(RowData(ws, main_header_row))

\* get_contractor_claim_column, get_employer_approval_column
AmountColumn(ws, headers) ==
    LET At(h) == IF h[1] = -1 THEN -1
                 ELSE find_amount_column_for_section(ws, h[1], h[2], headers)
    IN  At(find_header_rows(ws, 15, 1))

\* the rows of extract_sheet_data from row_idx on
RECURSIVE ExtractedFrom(_, _, _, _, _)
ExtractedFrom(c_ws, e_ws, row_idx, contractor_claim_col, employer_approval_col) ==
    IF row_idx > Len(c_ws) THEN <<>>
    ELSE (IF ~Truthy(CellValue(c_ws, row_idx, 2)) /\ ~Truthy(CellValue(c_ws, row_idx, 3))
          THEN <<>>
          ELSE << [row |-> row_idx,
                   wbs |-> CellValue(c_ws, row_idx, 2),
                   activity_name |-> CellValue(c_ws, row_idx, 3),
                   contractor_claim |-> IF contractor_claim_col # -1
                                        THEN CellValue(c_ws, row_idx, contractor_claim_col)
                                        ELSE NaN,
                   employer_approval |-> IF employer_approval_col # -1
                                         THEN CellValue(e_ws, row_idx, employer_approval_col)
                                         ELSE NaN] >>)
         \o ExtractedFrom(c_ws, e_ws, row_idx + 1, contractor_claim_col, employer_approval_col)

\* column_mapping.extract_sheet_data for a sheet both workbooks have
cm_extract_sheet_data(c_ws, e_ws) ==
    LET With(c, e) ==
            IF c[1] = -1 \/ e[1] = -1 THEN <<>>
            ELSE ExtractedFrom(c_ws, e_ws, (IF c[2] >= e[2] THEN c[2] ELSE e[2]) + 1,
                               AmountColumn(c_ws, CONTRACTOR_CLAIM_HEADERS),
                               AmountColumn(e_ws, EMPLOYER_APPROVAL_HEADERS))
    IN  With(find_header_rows(c_ws, 15, 1), find_header_rows(e_ws, 15, 1))

(***************************************************************************)
(* Specification of column_mapping.extract_sheet_data: a sheet of the      *)
(* contractor's workbook and the sheet of the same name of the employer's, *)
(* each with its header rows at the top or under a title row.              *)
(***************************************************************************)
MaxWsRows == 2

TitleRow == <<Txt(<<"x">>), NaN, NaN, NaN, NaN>>

WsHeaderRows(group_label) ==
    << <<Txt(<<"Re", "Dal", "FaYeh", "Fe">>), Txt(<<"W", ".", "B", ".", "S">>),
         Txt(<<"Ain", "Nun", "Vav", "Alef", "Nun", "SP", "Fe", "Ain", "Alef", "Lam", "FaYeh", "Te">>),
         Txt(group_label), NaN>>,
       <<NaN, NaN, NaN, NaN, Txt(AMOUNT_HEADER_PATTERN)>> >>

\* the i-th data row of the contractor: with or without W.B.S code and
\* activity name, the claimed amount in the fifth column
ContractorWsRows(i) ==
    {<<NaN, w, a, NaN, Claimed(i)>> : w \in {NaN, Txt(NatDigits(i))}, a \in {NaN, Txt(<<"x">>)}}

EmployerWsRows(i) ==
    {<<NaN, Txt(NatDigits(i)), Txt(<<"x">>), NaN, v>> : v \in Approved(i)}

RECURSIVE WsData(_, _)
WsData(n, approver) ==
    IF n = 0 THEN {<<>>}
    ELSE {Append(d, r) : d \in WsData(n - 1, approver),
                         r \in IF approver THEN EmployerWsRows(n) ELSE ContractorWsRows(n)}

Worksheets(approver) ==
    {t \o WsHeaderRows(IF approver THEN EMPLOYER_APPROVAL_HEADERS[1]
                       ELSE CONTRACTOR_CLAIM_HEADERS[3]) \o d :
        t \in {<<>>, <<TitleRow>>},
        d \in UNION {WsData(n, approver) : n \in 0..MaxWsRows}}

InitExtract ==
    /\ pc = "extract"
    /\ contractor_ws \in Worksheets(FALSE)
    /\ employer_ws \in Worksheets(TRUE)
    /\ sheet_rows = <<>>
    /\ IdleColumns
    /\ IdleSheet
    /\ IdleNormalize
    /\ IdleNumeric
    /\ IdleCompare
    /\ IdleMapper
    /\ IdleRun
    /\ IdleMerge
    /\ IdleProcess
    /\ IdleLocate

ExtractSheetData ==
    /\ pc = "extract"
    /\ sheet_rows' = cm_extract_sheet_data(contractor_ws, employer_ws)
    /\ pc' = "extracted"
    /\ UNCHANGED <<contractor_ws, employer_ws, amount_cols, available_sheets, target_sheet,
                   found_sheet, normVars, numVars, cmpVars, mapVars, runVars, mergeVars,
                   procVars, locVars>>

\* generate_master_verified on the same two worksheets: the header row is
\* detected, the columns are mapped and the rows extracted, as process_files
\* does for a sheet
MasterExtract ==
    /\ pc = "extracted"
    /\ \E c \in {detect_header_row(contractor_ws, 20)},
          e \in {detect_header_row(employer_ws, 20)} :
          extracted' =
              << [sheet_name |-> SheetA,
                  contractor_data |->
                      extract_sheet_data(contractor_ws,
                                         map_columns_contractor(contractor_ws, c[1], c[2]),
                                         SheetA, FALSE),
                  employer_data |->
                      extract_sheet_data(employer_ws,
                                         map_columns_employer(employer_ws, e[1], e[2]),
                                         SheetA, TRUE)] >>
    /\ pc' = "items"
    /\ UNCHANGED <<contractor_file, employer_file, todo, all_results, warnings_log, exit_code,
                   report, normVars, numVars, cmpVars, mapVars, runVars, mergeVars, locVars,
                   extVars>>

SpecExtract == InitExtract /\ [][ExtractSheetData \/ MasterExtract]_vars

\* the data rows of a worksheet: the rows under its own sub-header row
FirstDataRow(ws) == find_header_rows(ws, 15, 1)[2] + 1

DataRowCount(ws) == Len(ws) - find_header_rows(ws, 15, 1)[2]

\* no data row of the contractor is a blank row
NoBlankRow ==
    \A r \in FirstDataRow(contractor_ws)..Len(contractor_ws) :
        Truthy(CellValue(contractor_ws, r, 2)) \/ Truthy(CellValue(contractor_ws, r, 3))

\* C21: the i-th data row of the contractor is paired with the i-th data row
\* of the employer, each counted from the sheet's own first data row, and
\* there are as many pairs as the shorter sheet has data rows.
PositionalPairsFromOwnFirstRow ==
    pc = "extracted" /\ NoBlankRow =>
        /\ Len(sheet_rows) = Min(DataRowCount(contractor_ws), DataRowCount(employer_ws))
        /\ \A i \in 1..Len(sheet_rows) :
              /\ sheet_rows[i].contractor_claim
                     = CellValue(contractor_ws, FirstDataRow(contractor_ws) + i - 1, 5)
              /\ sheet_rows[i].employer_approval
                     = CellValue(employer_ws, FirstDataRow(employer_ws) + i - 1, 5)

\* what the code does: one record for every row of the contractor's sheet
\* under the lower of the two sub-header rows, with the cell of the
\* employer's sheet in the row of the same number
PairsBySheetRowNumber ==
    pc = "extracted" /\ NoBlankRow =>
        /\ Len(sheet_rows)
               = Len(contractor_ws) + 1
                 - Min(Len(contractor_ws) + 1,
                       IF FirstDataRow(contractor_ws) >= FirstDataRow(employer_ws)
                       THEN FirstDataRow(contractor_ws) ELSE FirstDataRow(employer_ws))
        /\ \A i \in 1..Len(sheet_rows) :
              /\ sheet_rows[i].contractor_claim
                     = CellValue(contractor_ws, sheet_rows[i].row, 5)
              /\ sheet_rows[i].employer_approval
                     = CellValue(employer_ws, sheet_rows[i].row, 5)

\* C22: with one value empty and the other not, the result carries the
\* difference against zero (contractor minus employer) when the value that
\* is there is numeric, and no difference when it is not.
OneEmptyDifferenceAgainstZero ==
    pc = "done" =>
        /\ NormalizesToEmpty(val1) /\ ~NormalizesToEmpty(val2) =>
              cmp.difference = IF is_numeric(val2) THEN Float(0 - to_numeric(val2).v) ELSE None
        /\ ~NormalizesToEmpty(val1) /\ NormalizesToEmpty(val2) =>
              cmp.difference = IF is_numeric(val1) THEN Float(to_numeric(val1).v - 0) ELSE None

\* what the code does: the same, for what its own test takes for empty (NaN,
\* or a text of nothing but whitespace)
OneBlankDifferenceAgainstZero ==
    pc = "done" =>
        /\ is_empty(val1) /\ ~is_empty(val2) =>
              /\ ~cmp.equal
              /\ cmp.difference = IF is_numeric(val2) THEN Float(0 - to_numeric(val2).v)
                                  ELSE None
        /\ ~is_empty(val1) /\ is_empty(val2) =>
              /\ ~cmp.equal
              /\ cmp.difference = IF is_numeric(val1) THEN Float(to_numeric(val1).v - 0)
                                  ELSE None

\* C23: when no row passes the binary gate and a scanned row scores, the
\* header find_header_rows returns is the row of the ranked score (counted
\* from 1) and the row after it.
BinaryFallsBackToRanked ==
    pc \notin {"binary", "ranked"} /\ Qualifying = {} /\ (\E i \in Scanned : Score(i) > 0) =>
        header_location.binary = <<header_location.ranked[1] + 1, header_location.ranked[2] + 1>>

\* what the code does: without a row that passes the gate find_header_rows
\* returns (None, None), whatever the rows score
BinaryGateReportsNotFound ==
    pc \notin {"binary", "ranked"} /\ Qualifying = {} => header_location.binary = <<-1, -1>>

(***************************************************************************)
(* Specification of the column maps: a sheet of a header row and a         *)
(* sub-header row; the span of every group label is found in the header    *)
(* row, then the amount columns are mapped by generate_master_verified and *)
(* by column_mapping.                                                      *)
(***************************************************************************)
MaxGroupCols == 4

\* the labels whose spans are recorded: two aliases of the contractor's group,
\* and the employer's group
ColumnLabels == <<ContractorGroupNames[1], ContractorGroupNames[3], EmployerGroupNames[1]>>

HeaderCells == {NaN, Txt(<<"SP">>)} \cup {Txt(ColumnLabels[g]) : g \in 1..Len(ColumnLabels)}

\* the W.B.S column, then MaxGroupCols cells that are empty or hold a label
ColumnHeaders ==
    {<<Txt(<<"W", ".", "B", ".", "S">>)>> \o q : q \in [1..MaxGroupCols -> HeaderCells]}

\* sub-header rows with the amount marker in no column, in the third or the
\* last column, or in every column after the first
AmountMarks == {{}, {3}, {MaxGroupCols + 1}, 2..(MaxGroupCols + 1)}

SubHeaders ==
    {[c \in 1..(MaxGroupCols + 1) |-> IF c \in marks THEN Txt(AMOUNT_HEADER_PATTERN) ELSE NaN] :
        marks \in AmountMarks}

InitColumns ==
    /\ pc = "spans"
    /\ sheet \in {<<h, s>> : h \in ColumnHeaders, s \in SubHeaders}
    /\ max_scan_rows = 0
    /\ header_location = NoLocation
    /\ group_spans = <<>>
    /\ amount_cols = <<>>
    /\ contractor_ws = <<>>
    /\ employer_ws = <<>>
    /\ sheet_rows = <<>>
    /\ IdleSheet
    /\ IdleNormalize
    /\ IdleNumeric
    /\ IdleCompare
    /\ IdleMapper
    /\ IdleRun
    /\ IdleMerge
    /\ IdleProcess

\* find_group_column_span of every label in the header row
SpanGroups ==
    /\ pc = "spans"
    /\ group_spans' = [g \in 1..Len(ColumnLabels) |->
                          find_group_column_span(sheet[1], ColumnLabels[g])]
    /\ pc' = "amounts"
    /\ UNCHANGED <<sheet, max_scan_rows, header_location, normVars, numVars, cmpVars, mapVars,
                   runVars, mergeVars, procVars, extVars>>

\* find_amount_column_in_span of every span found, map_columns_contractor and
\* map_columns_employer of the sheet, and get_contractor_claim_column and
\* get_employer_approval_column of it
MapColumns ==
    /\ pc = "amounts"
    /\ amount_cols' =
           [in_span |-> [g \in 1..Len(ColumnLabels) |->
                            IF group_spans[g][1] = -1 THEN -1
                            ELSE find_amount_column_in_span(sheet[2], group_spans[g][1],
                                                            group_spans[g][2])],
            contractor |-> map_columns_contractor(sheet, 0, 1).contractor_amount_col,
            employer |-> map_columns_employer(sheet, 0, 1).employer_amount_col,
            claim |-> AmountColumn(sheet, CONTRACTOR_CLAIM_HEADERS),
            approval |-> AmountColumn(sheet, EMPLOYER_APPROVAL_HEADERS)]
    /\ pc' = "mapped"
    /\ UNCHANGED <<contractor_ws, employer_ws, sheet_rows, available_sheets, target_sheet,
                   found_sheet, normVars, numVars, cmpVars, mapVars, runVars, mergeVars,
                   procVars, locVars>>

SpecColumns == InitColumns /\ [][SpanGroups \/ MapColumns]_vars

\* the amount column generate_master_verified finds through one alias alone
AliasAmount(group_name) == AmountOfGroups(sheet[1], sheet[2], <<group_name>>)

\* the amount column column_mapping finds through one alias alone
SectionAmount(header) == AmountColumn(sheet, <<header>>)

\* C24: the role is bound through the first alias of its list that yields a
\* column, wherever the columns of the aliases stand in the row: in
\* generate_master_verified and in column_mapping alike.
AliasPriorityBinds ==
    pc = "mapped" =>
        /\ \A k \in 1..Len(ContractorGroupNames) :
              /\ AliasAmount(ContractorGroupNames[k]) # -1
              /\ \A j \in 1..(k - 1) : AliasAmount(ContractorGroupNames[j]) = -1
              => amount_cols.contractor = AliasAmount(ContractorGroupNames[k])
        /\ \A k \in 1..Len(CONTRACTOR_CLAIM_HEADERS) :
              /\ SectionAmount(CONTRACTOR_CLAIM_HEADERS[k]) # -1
              /\ \A j \in 1..(k - 1) : SectionAmount(CONTRACTOR_CLAIM_HEADERS[j]) = -1
              => amount_cols.claim = SectionAmount(CONTRACTOR_CLAIM_HEADERS[k])

\* what the code does: generate_master_verified binds through the first alias
\* that yields a column; column_mapping binds the leftmost column that holds
\* any alias, and nothing when that section has no amount column
AliasPriorityInMaster ==
    pc = "mapped" =>
        /\ \A k \in 1..Len(ContractorGroupNames) :
              /\ AliasAmount(ContractorGroupNames[k]) # -1
              /\ \A j \in 1..(k - 1) : AliasAmount(ContractorGroupNames[j]) = -1
              => amount_cols.contractor = AliasAmount(ContractorGroupNames[k])
        /\ (\A k \in 1..Len(ContractorGroupNames) : AliasAmount(ContractorGroupNames[k]) = -1)
              => amount_cols.contractor = -1
        /\ \A k \in 1..Len(CONTRACTOR_CLAIM_HEADERS) :
              /\ SectionStart(sheet[1], <<CONTRACTOR_CLAIM_HEADERS[k]>>, 1) # -1
              /\ \A j \in 1..Len(CONTRACTOR_CLAIM_HEADERS) :
                    SectionStart(sheet[1], <<CONTRACTOR_CLAIM_HEADERS[j]>>, 1) = -1
                    \/ SectionStart(sheet[1], <<CONTRACTOR_CLAIM_HEADERS[k]>>, 1)
                           <= SectionStart(sheet[1], <<CONTRACTOR_CLAIM_HEADERS[j]>>, 1)
              => amount_cols.claim = SectionAmount(CONTRACTOR_CLAIM_HEADERS[k])

\* the columns (counted from 0) of the header row whose text holds the label
LabelColumns(g) ==
    {c \in 0..(Len(sheet[1]) - 1) :
        Contains(Lower(normalize_text(sheet[1][c + 1])), Lower(ColumnLabels[g]))}

FirstLabelColumn(g) == CHOOSE c \in LabelColumns(g) : \A d \in LabelColumns(g) : c <= d

\* the first column after the label's whose cell is not empty, the length of
\* the row when none follows: the column one past the end of the group
NextHeaderCell(g) ==
    LET after == {c \in (FirstLabelColumn(g) + 1)..(Len(sheet[1]) - 1) :
                     NonEmptyCell(sheet[1][c + 1])}
    IN  IF after = {} THEN Len(sheet[1])
        ELSE CHOOSE c \in after : \A d \in after : c <= d

\* C25 as stated: the span find_group_column_span returns starts at the first
\* column that holds the label and ends at the column before the next cell
\* that is not empty, or at the last column; it is (None, None) when no
\* column holds the label.
GroupSpanEndsAtNextCell ==
    pc # "spans" =>
        \A g \in 1..Len(ColumnLabels) :
            IF LabelColumns(g) = {} THEN group_spans[g] = <<-1, -1>>
            ELSE group_spans[g] = <<FirstLabelColumn(g), NextHeaderCell(g)>>

\* C25: the span find_group_column_span returns starts at the first column
\* that holds the label, and it is (None, None) when no column holds the
\* label; it ends at the column before the next cell that is not empty, or
\* at the last column, when that makes it 3 columns wide or more, and not
\* before that column when it is narrower.
GroupSpanEndsAtNextCellIfWide ==
    pc # "spans" =>
        \A g \in 1..Len(ColumnLabels) :
            IF LabelColumns(g) = {} THEN group_spans[g] = <<-1, -1>>
            ELSE /\ group_spans[g][1] = FirstLabelColumn(g)
                 /\ IF NextHeaderCell(g) - FirstLabelColumn(g) >= 3
                    THEN group_spans[g][2] = NextHeaderCell(g)
                    ELSE group_spans[g][2] >= NextHeaderCell(g)

\* a label whose group is 3 columns wide and followed by another cell, a
\* label that stands last in the row, and a label the row does not hold
GroupSpanWitness ==
    /\ pc # "spans"
    /\ \E g, h, i \in 1..Len(ColumnLabels) :
          /\ group_spans[g][1] # -1
          /\ group_spans[g][2] - group_spans[g][1] = 3
          /\ group_spans[g][2] < Len(sheet[1])
          /\ group_spans[h][1] = Len(sheet[1]) - 1
          /\ group_spans[h][2] = Len(sheet[1])
          /\ group_spans[i] = <<-1, -1>>

\* the width the group of label g has in the header row
GroupWidth(g) == NextHeaderCell(g) - FirstLabelColumn(g)

\* C26: a span narrower than the minimum width of 3 columns is widened to the
\* minimum: every span returned is 3 columns wide or more, and a widened one
\* is exactly 3 columns wide.
SpanWidenedToMinimum ==
    pc # "spans" =>
        \A g \in 1..Len(ColumnLabels) :
            group_spans[g][1] # -1 =>
                /\ group_spans[g][2] - group_spans[g][1] >= 3
                /\ GroupWidth(g) < 3 => group_spans[g][2] - group_spans[g][1] = 3

\* what the code does: a group narrower than 3 columns is returned 4 columns
\* wide, or as wide as the row leaves room for, which can be less than 3
SpanWidenedToFourOrRowEnd ==
    pc # "spans" =>
        \A g \in 1..Len(ColumnLabels) :
            group_spans[g][1] # -1 =>
                group_spans[g][2] - group_spans[g][1] =
                    IF GroupWidth(g) >= 3 THEN GroupWidth(g)
                    ELSE Min(4, Len(sheet[1]) - group_spans[g][1])

\* the columns of the span of label g whose sub-header holds an amount marker
MarkedInSpan(g) ==
    {c \in group_spans[g][1]..(group_spans[g][2] - 1) :
        /\ c < Len(sheet[2])
        /\ \E k \in 1..Len(AMOUNT_KEYWORDS) :
               Contains(Lower(normalize_text(sheet[2][c + 1])), Lower(AMOUNT_KEYWORDS[k]))}

\* the columns that belong to the group of label g in the header row
GroupColumns(g) == FirstLabelColumn(g)..(NextHeaderCell(g) - 1)

\* C27: the amount column of a span is the first column of the span whose
\* sub-header holds an amount marker, the third column of the span when none
\* does; it lies inside the span or is None, and it is never a column of
\* another group.
AmountColumnInOwnGroup ==
    pc = "mapped" =>
        \A g \in 1..Len(ColumnLabels) :
            group_spans[g][1] # -1 =>
                /\ IF MarkedInSpan(g) # {}
                   THEN /\ amount_cols.in_span[g] \in MarkedInSpan(g)
                        /\ \A c \in MarkedInSpan(g) : amount_cols.in_span[g] <= c
                   ELSE amount_cols.in_span[g] \in {-1, group_spans[g][1] + 2}
                /\ amount_cols.in_span[g] # -1 =>
                      /\ amount_cols.in_span[g] >= group_spans[g][1]
                      /\ amount_cols.in_span[g] < group_spans[g][2]
                      /\ \A h \in 1..Len(ColumnLabels) :
                            h # g /\ LabelColumns(h) # {} /\ FirstLabelColumn(h) # FirstLabelColumn(g)
                                => amount_cols.in_span[g] \notin GroupColumns(h)

\* what the code does: the same but for the other groups, whose columns a
\* widened span can hold
AmountColumnInSpan ==
    pc = "mapped" =>
        \A g \in 1..Len(ColumnLabels) :
            group_spans[g][1] # -1 =>
                /\ IF MarkedInSpan(g) # {}
                   THEN /\ amount_cols.in_span[g] \in MarkedInSpan(g)
                        /\ \A c \in MarkedInSpan(g) : amount_cols.in_span[g] <= c
                   ELSE amount_cols.in_span[g] =
                            IF group_spans[g][1] + 2 < group_spans[g][2]
                            THEN group_spans[g][1] + 2 ELSE -1
                /\ amount_cols.in_span[g] # -1 =>
                      /\ amount_cols.in_span[g] >= group_spans[g][1]
                      /\ amount_cols.in_span[g] < group_spans[g][2]

\* the rows of the contractor's sheet that column_mapping.extract_sheet_data
\* walks: from the row under the lower of the two sub-header rows
WalkedRows ==
    (IF FirstDataRow(contractor_ws) >= FirstDataRow(employer_ws)
     THEN FirstDataRow(contractor_ws) ELSE FirstDataRow(employer_ws))..Len(contractor_ws)

\* the identifier (W.B.S) and the description cell of row r are both empty
BlankRow(r) == isna(CellValue(contractor_ws, r, 2)) /\ isna(CellValue(contractor_ws, r, 3))

\* C28: a row of the contractor's sheet is left out exactly when its
\* identifier cell and its description cell are both empty: by
\* column_mapping.extract_sheet_data and by
\* generate_master_verified.extract_sheet_data alike.
RowExcludedIffBlank ==
    pc = "items" =>
        /\ \A r \in WalkedRows :
              (\E i \in 1..Len(sheet_rows) : sheet_rows[i].row = r) <=> ~BlankRow(r)
        /\ \A r \in FirstDataRow(contractor_ws)..Len(contractor_ws) :
              (\E i \in 1..Len(extracted[1].contractor_data.items) :
                    extracted[1].contractor_data.items[i].row_num = r) <=> ~BlankRow(r)

\* what the code does: column_mapping leaves out the rows with both cells
\* empty, generate_master_verified every row without an identifier
RowExcludedIffNoIdentifier ==
    pc = "items" =>
        /\ \A r \in WalkedRows :
              (\E i \in 1..Len(sheet_rows) : sheet_rows[i].row = r) <=> ~BlankRow(r)
        /\ \A r \in FirstDataRow(contractor_ws)..Len(contractor_ws) :
              (\E i \in 1..Len(extracted[1].contractor_data.items) :
                    extracted[1].contractor_data.items[i].row_num = r)
                  <=> ~isna(CellValue(contractor_ws, r, 2))

\* no two rows of a frame carry the same key
DistinctKeys(keys) == \A i, j \in 1..Len(keys) : i # j => keys[i] # keys[j]

\* C29: after align_dataframes the two aligned tables have the same number
\* of rows and, under identifier alignment, the same key at every position,
\* so _compare_data compares no rows of different keys and reads no row past
\* the end of a table.
AlignedTablesAgree ==
    Aligned =>
        /\ Len(aligned_employer) = Len(aligned_contractor)
        /\ ByIdentifier =>
              \A p \in 1..Min(Len(aligned_employer), Len(aligned_contractor)) :
                  EmployerKeys[aligned_employer[p]] = ContractorKeys[aligned_contractor[p]]
        /\ pc # "failed"

\* what the code keeps of it: the same when no key is repeated within a table
AlignedTablesAgreeIfDistinct ==
    Aligned /\ (ByIdentifier => DistinctKeys(EmployerKeys) /\ DistinctKeys(ContractorKeys)) =>
        /\ Len(aligned_employer) = Len(aligned_contractor)
        /\ ByIdentifier =>
              \A p \in 1..Len(aligned_employer) :
                  EmployerKeys[aligned_employer[p]] = ContractorKeys[aligned_contractor[p]]
        /\ pc # "failed"

(***************************************************************************)
(* Specification of SheetFinder.find_sheet: the sheet names of a workbook  *)
(* (it has a sheet, and no two of the same name) and the name asked for.   *)
(***************************************************************************)
SHEET_MATCH_THRESHOLD == 70

\* the first sheet whose normalised name is the normalised target, 0 if none
RECURSIVE ExactSheet(_, _, _)
ExactSheet(sheets, normalized_target, i) ==
    IF i > Len(sheets) THEN 0
    ELSE IF normalize(Txt(sheets[i])) = normalized_target THEN i
    ELSE ExactSheet(sheets, normalized_target, i + 1)

\* {PersianNormalizer.normalize(s): s for s in available_sheets}
RECURSIVE NormalizedSheets(_)
NormalizedSheets(sheets) ==
    IF sheets = <<>> THEN <<>>
    ELSE DictSet(NormalizedSheets(SubSeq(sheets, 1, Len(sheets) - 1)),
                 normalize(Txt(sheets[Len(sheets)])), sheets[Len(sheets)])

\* a slip the tests below must notice: the names are compared as written
find_sheet_raw(sheets, target) ==
    LET normalized_sheets == NormalizedSheets(sheets)
        Fuzzy(best_match) ==
            IF best_match # <<>> /\ best_match[2] >= SHEET_MATCH_THRESHOLD
            THEN [sheet |-> DictGet(normalized_sheets, best_match[1]), fuzzy |-> TRUE]
            ELSE [sheet |-> sheets[1], fuzzy |-> TRUE]
    IN  IF \E i \in 1..Len(sheets) : sheets[i] = target
        THEN [sheet |-> target, fuzzy |-> FALSE]
        ELSE Fuzzy(extractOne(normalize(Txt(target)), DictKeys(normalized_sheets)))

\* SheetFinder.find_sheet: the sheet found and whether it was found by fuzzy
\* matching
find_sheet(sheets, target) ==
    LET normalized_target == normalize(Txt(target))
        normalized_sheets == NormalizedSheets(sheets)
        Fuzzy(best_match) ==
            IF best_match # <<>> /\ best_match[2] >= SHEET_MATCH_THRESHOLD
            THEN [sheet |-> DictGet(normalized_sheets, best_match[1]), fuzzy |-> TRUE]
            ELSE [sheet |-> sheets[1], fuzzy |-> TRUE]
        Exact(i) ==
            IF i # 0 THEN [sheet |-> sheets[i], fuzzy |-> FALSE]
            ELSE Fuzzy(extractOne(normalized_target, DictKeys(normalized_sheets)))
    IN  Exact(ExactSheet(sheets, normalized_target, 1))

MaxSheets == 2

\* names that are the target once normalised, names close to it and far
\* from it, and a name that differs from it in case only
SheetNames == {<<"a", "b", "FaYeh">>, <<"a", "b", "ArYeh">>, <<"a", "ZWNJ", "b", "FaYeh">>,
               <<"a", "b", "FaYeh", "d">>, <<"a", "b", "d">>, <<"A", "B", "FaYeh">>, <<"x">>}

TargetSheets == {<<"a", "b", "FaYeh">>, <<"a", "b", "ArYeh">>, <<"x", "y">>}

SheetLists == {q \in SeqsUpTo(SheetNames, MaxSheets) :
                  q # <<>> /\ \A i, j \in 1..Len(q) : i # j => q[i] # q[j]}

InitSheet ==
    /\ pc = "find"
    /\ available_sheets \in SheetLists
    /\ target_sheet \in TargetSheets
    /\ found_sheet = <<>>
    /\ contractor_ws = <<>>
    /\ employer_ws = <<>>
    /\ sheet_rows = <<>>
    /\ IdleColumns
    /\ IdleNormalize
    /\ IdleNumeric
    /\ IdleCompare
    /\ IdleMapper
    /\ IdleRun
    /\ IdleMerge
    /\ IdleProcess
    /\ IdleLocate

FindSheet ==
    /\ pc = "find"
    /\ found_sheet' = find_sheet(available_sheets, target_sheet)
    /\ pc' = "found"
    /\ UNCHANGED <<available_sheets, target_sheet, contractor_ws, employer_ws, sheet_rows,
                   amount_cols, normVars, numVars, cmpVars, mapVars, runVars, mergeVars,
                   procVars, locVars>>

SpecSheet == InitSheet /\ [][FindSheet]_vars

\* the sheets whose normalised name is the normalised target
EqualSheets ==
    {i \in 1..Len(available_sheets) :
        normalize(Txt(available_sheets[i])) = normalize(Txt(target_sheet))}

\* fuzz.ratio of the normalised target and the normalised name of sheet i, as
\* process.extractOne scores them
SheetScore(i) ==
    ratio(full_process(normalize(Txt(target_sheet))),
          full_process(normalize(Txt(available_sheets[i]))))

\* C30: find_sheet returns a sheet of the workbook: the first sheet whose
\* normalised name is the normalised target, not fuzzy, if there is one;
\* else a sheet of the best score, fuzzy, when that score is 70 or more; else
\* the first sheet of the workbook, fuzzy.
FindSheetReturnsExistingSheet ==
    pc = "found" =>
        /\ \E i \in 1..Len(available_sheets) : found_sheet.sheet = available_sheets[i]
        /\ IF EqualSheets # {}
           THEN /\ ~found_sheet.fuzzy
                /\ \E i \in EqualSheets :
                      /\ found_sheet.sheet = available_sheets[i]
                      /\ \A j \in EqualSheets : i <= j
           ELSE /\ found_sheet.fuzzy
                /\ IF \E i \in 1..Len(available_sheets) : SheetScore(i) >= SHEET_MATCH_THRESHOLD
                   THEN \E i \in 1..Len(available_sheets) :
                           /\ found_sheet.sheet = available_sheets[i]
                           /\ \A j \in 1..Len(available_sheets) : SheetScore(j) <= SheetScore(i)
                   ELSE found_sheet.sheet = available_sheets[1]

\* a sheet found by its normalised name though written otherwise and not the
\* first of the workbook
FindSheetExactWitness ==
    /\ pc = "found"
    /\ ~found_sheet.fuzzy
    /\ found_sheet.sheet # target_sheet
    /\ found_sheet.sheet # available_sheets[1]

\* a sheet found by its score, not the first of the workbook
FindSheetFuzzyWitness ==
    /\ pc = "found"
    /\ found_sheet.fuzzy
    /\ found_sheet.sheet # available_sheets[1]
    /\ \E i \in 1..Len(available_sheets) : SheetScore(i) >= SHEET_MATCH_THRESHOLD

\* no sheet close enough: the first sheet of the workbook
FindSheetFallbackWitness ==
    /\ pc = "found"
    /\ found_sheet.fuzzy
    /\ EqualSheets = {}
    /\ Len(available_sheets) > 1
    /\ \A i \in 1..Len(available_sheets) : SheetScore(i) < SHEET_MATCH_THRESHOLD
====
